---- MODULE Spec2Model ----
(***************************************************************************)
(* A model of the solana-tax-reward Anchor program                         *)
(* (programs/tax_reward/src): Config, GlobalState and the per-holder       *)
(* UserInfo ledger, the instruction handlers of lib.rs together with the   *)
(* account constraints of instructions.rs, and the token / lamport         *)
(* balances the handlers move.                                             *)
(*                                                                         *)
(* Every instruction is one atomic action: the Solana runtime discards all *)
(* account writes of an instruction that returns an error, so a failed     *)
(* invocation commits nothing.  Each handler is an operator from the       *)
(* committed state and the instruction's inputs to an outcome record that  *)
(* carries the error kind, the tentative state and the ordered list of the *)
(* handler's steps that were executed.                                     *)
(*                                                                         *)
(* Integer widths are scaled down so that TLC's integers can hold them:    *)
(* u64 is 0..U64_MAX, u128 is 0..U128_MAX and the fixed-point SCALE        *)
(* (10^18 in lib.rs) is SCALE; the order SCALE < U64_MAX < U128_MAX and    *)
(* U128_MAX \div SCALE > U64_MAX of the program's values is kept.          *)
(***************************************************************************)
EXTENDS Integers, Sequences, FiniteSets, TLC

\* ------------------------------------------------------------------ bounds
\* Largest value of the model's u64 (token amounts, lamports).
U64_MAX == 1048575
\* Largest value of the model's u128 (cum_reward_per_token and products).
U128_MAX == 1073741823
\* The model's fixed-point scale (lib.rs: SCALE = 10^18).
SCALE == 1000
\* Largest mint supply the environment mints up to.
MaxSupply == 2
\* Lamports the exchange route can pay out in total over a behaviour.
DexLiquidity == 2
\* The same for the behaviours of SpecLedger.
LedgerLiquidity == 4
\* Largest credit the exchange route makes in one swap call.
MaxCredit == 2
\* Largest amount_in and min_amount_out argument drawn.
MaxAmountIn == 1
MaxMinOut == 1
\* The same as DexLiquidity for the behaviours of SpecMath.
MathLiquidity == 2
\* SpecMath stops swapping once the token vault holds more than this.
MathTaxCap == 3

\* --------------------------------------------------------- program constants
\* 100% in basis points (lib.rs:36, 77, 201).
BPS_DENOMINATOR == 10000

\* ------------------------------------------------------------------- inputs
Users == {"alice", "bob"}
\* Token accounts a caller can pass: one account of the configured mint per
\* user, and one account of another mint that belongs to alice.
ForeignAccount == "foreign"
ForeignAmount == 2
TokenAccounts == Users \cup {ForeignAccount}
\* The users the environment of Spec mints tokens to.
MintRecipients == {"alice"}
\* tax_rate_bps arguments drawn (u16): valid ones, and invalid ones.
TaxRates == {0, BPS_DENOMINATOR, BPS_DENOMINATOR + 1}
Amounts == 0..MaxAmountIn
MinOuts == 0..MaxMinOut
\* What the external exchange route does during the swap call: it fails, or it
\* returns Ok having credited d >= 0 lamports to the reward vault, or having
\* taken one lamport out of it (d = -1).
SwapOutcomes ==
    {[route |-> "fail", delta |-> 0]} \cup {[route |-> "ok", delta |-> d] : d \in (0 - 1)..MaxCredit}

\* The values SpecMath starts from and draws: tax rates with inexact quotients,
\* supplies, accumulator values and token amounts up to the integer widths.
MathRates == {0, 1, 3333, BPS_DENOMINATOR}
MathSupplies == {1, 3, U64_MAX}
MathCums == {0, U128_MAX - SCALE \div 2, U128_MAX}
MathBalances == {3, U64_MAX}
MathAmounts == {1, 7, U64_MAX}
\* u128 values of delta_sol the accrual is applied to.
MathDeltas == {0, 1, U64_MAX, U128_MAX \div SCALE, U128_MAX \div SCALE + 1, U128_MAX}

\* Option::None of the checked_* operations (an Err once ok_or is applied).
None == -1

VARIABLES
    initialized,    \* Config / GlobalState / vault accounts exist (init)
    config,         \* state.rs Config
    global_state,   \* state.rs GlobalState
    user_info,      \* state.rs UserInfo per user: exists, last_cum, balance_snapshot
    token_balance,   \* amount of each user's token account of the mint
    token_vault,    \* amount of the token (tax) vault
    mint_supply,    \* Mint.supply
    reward_vault,   \* lamports of the reward vault
    dex_lamports,   \* lamports the exchange route still holds
    accruals,       \* history: <<[out, dc]>> of the successful swaps with dc > 0
    paid_for,       \* history: lamports paid out for each recorded accrual
    settled_upto,   \* history: per user, Len(accruals) at the last settlement
    claimed,        \* history: users who claimed since the last successful swap
    closed_last_cum, \* history: per user, last_cum of the entry when it was last closed
    fn_call,        \* SpecFn: the function applied and its arguments
    fn_ret,         \* SpecFn: whether it has returned, and the value returned
    legacy          \* SpecLegacy: the accounts of the legacy processor (src/processor.rs)

vars == <<initialized, config, global_state, user_info, token_balance, token_vault,
          mint_supply, reward_vault, dex_lamports,
          accruals, paid_for, settled_upto, claimed, closed_last_cum, fn_call, fn_ret,
          legacy>>

progVars == <<initialized, config, global_state, user_info, token_balance, token_vault,
              mint_supply, reward_vault, dex_lamports>>

\* The call record of SpecFn and the legacy processor's accounts, which the
\* instructions of the Anchor program leave alone.
fnVars == <<fn_call, fn_ret, legacy>>

histVars == <<accruals, paid_for, settled_upto, claimed, closed_last_cum, fnVars>>

\* ------------------------------------------------------------ checked math
\* u64/u128 checked_mul: None on overflow of the width.
checked_mul(a, b, max) ==
    IF a = 0 \/ b = 0 THEN 0
    ELSE IF a > max \div b THEN None
    ELSE a * b

checked_add(a, b, max) ==
    IF a > max - b THEN None ELSE a + b

checked_sub(a, b) ==
    IF a < b THEN None ELSE a - b

checked_div(a, b) ==
    IF b = 0 THEN None ELSE a \div b

\* `x as u64` of a u128 value: the low bits.
as_u64(x) == x % (U64_MAX + 1)

\* No function call of SpecFn in progress.
NoCall == [fn |-> "none", a |-> 0, b |-> 0, c |-> 0]

NoReturn == [done |-> FALSE, value |-> 0]

\* The legacy processor's accounts, empty: FeePool, RewardPool with its
\* lamports, and one holder's HolderInfo with its lamports.
NoLegacy ==
    [collected_tokens |-> 0, sol_balance |-> 0, reward_pool_lamports |-> 0,
     pending_rewards |-> 0, holder_lamports |-> 0]

NoUserInfo == [exists |-> FALSE, last_cum |-> 0, balance_snapshot |-> 0]

NoConfig == [tax_rate_bps |-> 0, owner |-> "none", dex_program |-> "none", paused |-> FALSE]

\* The committed program state as one record, the handlers' argument.  wallet
\* is the lamports an invocation has credited to each user's wallet: the
\* wallets' balances are kept relative to their value when it starts.
Cur ==
    [initialized |-> initialized, config |-> config, global_state |-> global_state,
     user_info |-> user_info, token_balance |-> token_balance, token_vault |-> token_vault,
     mint_supply |-> mint_supply, reward_vault |-> reward_vault,
     dex_lamports |-> dex_lamports, wallet |-> [u \in Users |-> 0]]

Init ==
    /\ initialized = FALSE
    /\ config = NoConfig
    /\ global_state = [total_supply |-> 0, cum_reward_per_token |-> 0]
    /\ user_info = [u \in Users |-> NoUserInfo]
    /\ token_balance = [u \in Users |-> 0]
    /\ token_vault = 0
    /\ mint_supply = 0
    /\ reward_vault = 0
    /\ dex_lamports = DexLiquidity
    /\ accruals = <<>>
    /\ paid_for = <<>>
    /\ settled_upto = [u \in Users |-> 0]
    /\ claimed = {}
    /\ closed_last_cum = [u \in Users |-> 0]
    /\ fn_call = NoCall
    /\ fn_ret = NoReturn
    /\ legacy = NoLegacy

\* ---------------------------------------------------------------- accounts
Mint == "mint"

\* TokenAccount.mint and TokenAccount.owner of the accounts a caller can pass.
acct_mint(a) == IF a = ForeignAccount THEN "other_mint" ELSE Mint

acct_owner(a) == IF a = ForeignAccount THEN "alice" ELSE a

\* TokenAccount.amount as Anchor deserializes it when the instruction starts.
acct_amount(s, a) == IF a = ForeignAccount THEN ForeignAmount ELSE s.token_balance[a]

\* has_one = owner of UpdateConfig and UpdateTotalSupply.
has_one_owner(s, signer) == s.config.owner = signer

\* ------------------------------------------------------------ reward math
\* A mutant of calculate_owed_rewards: the quotient is rounded up.
calculate_owed_rounds_up(user_balance_snapshot, global_cum_reward_per_token, user_last_cum) ==
    LET diff == checked_sub(global_cum_reward_per_token, user_last_cum)
    IN  IF diff = None THEN None
        ELSE LET prod == checked_mul(user_balance_snapshot, diff, U128_MAX)
             IN  IF prod = None THEN None
                 ELSE as_u64((prod + (SCALE - 1)) \div SCALE)

\* A mutant of calculate_owed_rewards: the difference saturates at 0.
calculate_owed_saturating(user_balance_snapshot, global_cum_reward_per_token, user_last_cum) ==
    LET diff == IF global_cum_reward_per_token < user_last_cum THEN 0
                ELSE global_cum_reward_per_token - user_last_cum
        prod == checked_mul(user_balance_snapshot, diff, U128_MAX)
    IN  IF prod = None THEN None ELSE as_u64(checked_div(prod, SCALE))

\* lib.rs calculate_owed_rewards: None stands for Err(Overflow).
calculate_owed_rewards(user_balance_snapshot, global_cum_reward_per_token, user_last_cum) ==
    LET diff == checked_sub(global_cum_reward_per_token, user_last_cum)
    IN  IF diff = None THEN None
        ELSE LET prod == checked_mul(user_balance_snapshot, diff, U128_MAX)
             IN  IF prod = None THEN None
                 ELSE as_u64(checked_div(prod, SCALE))

\* lib.rs:187-191: delta_sol * SCALE / total_supply, None for Err(Overflow).
delta_cum_of(delta_sol, total_supply) ==
    LET prod == checked_mul(delta_sol, SCALE, U128_MAX)
    IN  IF prod = None THEN None ELSE checked_div(prod, total_supply)

\* A mutant of accrue: the addition wraps around the width.
accrue_wrapping(cum_reward_per_token, delta_cum) ==
    (cum_reward_per_token + delta_cum) % (U128_MAX + 1)

\* A mutant of accrue: the accumulator is assigned, not added to.
accrue_assigns(cum_reward_per_token, delta_cum) == delta_cum

\* lib.rs:192-195: the new cum_reward_per_token, None for Err(Overflow).
accrue(cum_reward_per_token, delta_cum) ==
    checked_add(cum_reward_per_token, delta_cum, U128_MAX)

\* A mutant of tax_amount_of: the quotient is rounded up.
tax_amount_rounds_up(amount_in, tax_rate_bps) ==
    LET prod == checked_mul(amount_in, tax_rate_bps, U64_MAX)
    IN  IF prod = None THEN None
        ELSE checked_div(prod + (BPS_DENOMINATOR - 1), BPS_DENOMINATOR)

\* A mutant of tax_amount_of: the division is made before the multiplication.
tax_amount_divides_first(amount_in, tax_rate_bps) ==
    checked_mul(checked_div(amount_in, BPS_DENOMINATOR), tax_rate_bps, U64_MAX)

\* lib.rs:198-202: amount_in * tax_rate_bps / 10_000 in u64, None for Err(Overflow).
tax_amount_of(amount_in, tax_rate_bps) ==
    LET prod == checked_mul(amount_in, tax_rate_bps, U64_MAX)
    IN  IF prod = None THEN None ELSE checked_div(prod, BPS_DENOMINATOR)

\* A mutant of slippage_exceeded: the test is missing.
slippage_unchecked(swapped_amount, min_amount_out) == FALSE

\* lib.rs:166: the slippage test on the measured difference.
slippage_exceeded(swapped_amount, min_amount_out) == swapped_amount < min_amount_out

\* lib.rs:177: the vault sufficiency test made after the swap.
vault_insufficient(owed, rv_balance) == owed > 0 /\ rv_balance < owed

\* --------------------------------------------------------------- the swap
\* swap.rs mock_swap_for_development: moves nothing itself and returns Ok; the
\* route argument stands for the external exchange it is the stand-in of,
\* whose call may also return an error.
mock_swap_for_development(route) == IF route = "ok" THEN "Ok" ELSE "RouteError"

\* swap.rs swap_tokens_for_sol: the error kind returned, "Ok" for Ok(()).
swap_tokens_for_sol(token_amount, route) ==
    IF token_amount = 0 THEN "InvalidArgument"
    ELSE mock_swap_for_development(route)

\* swap.rs:37-63: the exchange routes one call of swap_tokens_for_sol attempts,
\* in order.  The Jupiter and Serum routes (swap.rs:90-174) are never called.
swap_attempts(token_amount, route) ==
    IF token_amount = 0 THEN <<>>
    ELSE <<"mock_swap_for_development">>

\* The reward vault's lamports after the external call: the route credits what
\* it still holds (delta >= 0) or takes a lamport away (delta < 0).
route_effect(s, delta) ==
    IF delta >= 0
    THEN LET d == IF delta <= s.dex_lamports THEN delta ELSE s.dex_lamports
         IN  [s EXCEPT !.reward_vault = @ + d, !.dex_lamports = @ - d]
    ELSE IF s.reward_vault > 0
         THEN [s EXCEPT !.reward_vault = @ - 1, !.dex_lamports = @ + 1]
         ELSE s

\* --------------------------------------------- handler context and outcome
\* The running context of one invocation: err is "Run" while the handler is
\* executing, st is the tentative state, steps lists the effects executed so
\* far in order, and the remaining fields are the handler's locals and inputs.
NewCtx(s, user, acct) ==
    [err |-> "Run", st |-> s, steps |-> <<>>, user |-> user, acct |-> acct,
     loaded_amount |-> acct_amount(s, acct),
     amount_in |-> 0, min_amount_out |-> 0, route |-> "ok", delta |-> 0,
     owed |-> 0, pre_balance |-> 0, delta_sol |-> 0, delta_cum |-> 0, tax_amount |-> 0]

Step(c, name) == [c EXCEPT !.steps = Append(@, name)]

Fail(c, e) == [c EXCEPT !.err = e]

Finish(c) == IF c.err = "Run" THEN [c EXCEPT !.err = "Ok"] ELSE c

\* What the runtime commits: the tentative state of a successful invocation,
\* the state as it was for a failed one.
Committed(s, c) == IF c.err = "Ok" THEN c.st ELSE s

\* system_instruction::transfer of `lamports` from the reward vault to the
\* user's wallet (lib.rs:106-131, 236-261); fails when the vault holds less.
pay_reward(c, lamports) ==
    IF c.st.reward_vault < lamports THEN Fail(c, "InsufficientLamports")
    ELSE Step([c EXCEPT !.st.reward_vault = @ - lamports,
                        !.st.wallet[c.user] = @ + lamports], "pay_owed")

\* ------------------------------------------- taxed_swap_and_distribute
\* A mutant of ts_accounts: a created entry starts with the holder's balance.
ts_accounts_snapshots_balance(c) ==
    IF c.st.user_info[c.user].exists THEN c
    ELSE [c EXCEPT !.st.user_info[c.user] =
              [exists |-> TRUE, last_cum |-> 0, balance_snapshot |-> c.loaded_amount]]

\* instructions.rs TaxedSwap: user_info is init_if_needed (zeroed when created).
ts_accounts(c) ==
    IF c.st.user_info[c.user].exists THEN c
    ELSE [c EXCEPT !.st.user_info[c.user] =
              [exists |-> TRUE, last_cum |-> 0, balance_snapshot |-> 0]]

\* A mutant of ts_validate: the amount is checked before the pause flag.
ts_validate_amount_first(c) ==
    IF c.err # "Run" THEN c
    ELSE IF ~(c.amount_in > 0) THEN Fail(c, "InvalidInstruction")
    ELSE IF c.st.config.paused THEN Fail(c, "ProgramPaused")
    ELSE IF ~(c.st.config.tax_rate_bps <= BPS_DENOMINATOR) THEN Fail(c, "InvalidTaxRate")
    ELSE IF ~(acct_mint(c.acct) = Mint) THEN Fail(c, "InvalidTokenAccount")
    ELSE IF ~(c.loaded_amount >= c.amount_in) THEN Fail(c, "InsufficientFunds")
    ELSE IF ~(c.st.global_state.total_supply > 0) THEN Fail(c, "InvalidMintSupply")
    ELSE c

\* A mutant of ts_validate: the total_supply check is missing.
ts_validate_no_supply(c) ==
    IF c.err # "Run" THEN c
    ELSE IF c.st.config.paused THEN Fail(c, "ProgramPaused")
    ELSE IF ~(c.amount_in > 0) THEN Fail(c, "InvalidInstruction")
    ELSE IF ~(c.st.config.tax_rate_bps <= BPS_DENOMINATOR) THEN Fail(c, "InvalidTaxRate")
    ELSE IF ~(acct_mint(c.acct) = Mint) THEN Fail(c, "InvalidTokenAccount")
    ELSE IF ~(c.loaded_amount >= c.amount_in) THEN Fail(c, "InsufficientFunds")
    ELSE c

\* lib.rs:73-93, the require! checks in their order.
ts_validate(c) ==
    IF c.err # "Run" THEN c
    ELSE IF c.st.config.paused THEN Fail(c, "ProgramPaused")
    ELSE IF ~(c.amount_in > 0) THEN Fail(c, "InvalidInstruction")
    ELSE IF ~(c.st.config.tax_rate_bps <= BPS_DENOMINATOR) THEN Fail(c, "InvalidTaxRate")
    ELSE IF ~(acct_mint(c.acct) = Mint) THEN Fail(c, "InvalidTokenAccount")
    ELSE IF ~(c.loaded_amount >= c.amount_in) THEN Fail(c, "InsufficientFunds")
    ELSE IF ~(c.st.global_state.total_supply > 0) THEN Fail(c, "InvalidMintSupply")
    ELSE c

\* A mutant of ts_settle: last_cum is advanced only when a reward was paid.
ts_settle_skips_zero(c) ==
    IF c.err # "Run" THEN c
    ELSE LET ui == c.st.user_info[c.user]
             cum == c.st.global_state.cum_reward_per_token
             owed == calculate_owed_rewards(ui.balance_snapshot, cum, ui.last_cum)
         IN  IF owed = None THEN Fail(c, "Overflow")
             ELSE IF owed = 0 THEN [c EXCEPT !.owed = 0]
             ELSE LET c2 == pay_reward([c EXCEPT !.owed = owed], owed)
                  IN  IF c2.err # "Run" THEN c2
                      ELSE Step([c2 EXCEPT !.st.user_info[c.user].last_cum = cum],
                                "write_last_cum")

\* lib.rs:95-134: lazy pull of the pending reward, then last_cum.
ts_settle(c) ==
    IF c.err # "Run" THEN c
    ELSE LET ui == c.st.user_info[c.user]
             cum == c.st.global_state.cum_reward_per_token
             owed == calculate_owed_rewards(ui.balance_snapshot, cum, ui.last_cum)
         IN  IF owed = None THEN Fail(c, "Overflow")
             ELSE LET c1 == [c EXCEPT !.owed = owed]
                      c2 == IF owed > 0 THEN pay_reward(c1, owed) ELSE c1
                  IN  IF c2.err # "Run" THEN c2
                      ELSE Step([c2 EXCEPT !.st.user_info[c.user].last_cum = cum],
                                "write_last_cum")

\* lib.rs:136-149: pre_balance, then the external swap call.
ts_swap(c) ==
    IF c.err # "Run" THEN c
    ELSE LET c1 == [c EXCEPT !.pre_balance = c.st.reward_vault]
             res == swap_tokens_for_sol(c.amount_in, c.route)
         IN  IF res # "Ok" THEN Fail(Step(c1, "swap_call"), res)
             ELSE Step([c1 EXCEPT !.st = route_effect(c1.st, c.delta)], "swap_call")

\* A mutant of ts_measure: the difference saturates at 0 (saturating_sub).
ts_measure_saturating(c) ==
    IF c.err # "Run" THEN c
    ELSE LET post_balance == c.st.reward_vault
             d == IF post_balance < c.pre_balance THEN 0 ELSE post_balance - c.pre_balance
         IN  Step([c EXCEPT !.delta_sol = d], "measure")

\* lib.rs:151-155: the measured difference of the reward vault.
ts_measure(c) ==
    IF c.err # "Run" THEN c
    ELSE LET post_balance == c.st.reward_vault
             d == checked_sub(post_balance, c.pre_balance)
         IN  IF d = None THEN Fail(c, "Overflow")
             ELSE Step([c EXCEPT !.delta_sol = d], "measure")

\* lib.rs:157-173.
ts_slippage(c) ==
    IF c.err # "Run" THEN c
    ELSE IF slippage_exceeded(as_u64(c.delta_sol), c.min_amount_out)
         THEN Fail(c, "SlippageExceeded")
    ELSE Step(c, "slippage_ok")

\* lib.rs:175-184.
ts_vault_check(c) ==
    IF c.err # "Run" THEN c
    ELSE IF vault_insufficient(c.owed, c.st.reward_vault)
         THEN Fail(c, "InsufficientRewardVault")
    ELSE Step(c, "vault_ok")

\* A mutant of ts_account: the accrual also moves the caller's last_cum to the
\* new cum_reward_per_token.
ts_account_advances_last_cum(c) ==
    IF c.err # "Run" THEN c
    ELSE LET dc == delta_cum_of(c.delta_sol, c.st.global_state.total_supply)
         IN  IF dc = None THEN Fail(c, "Overflow")
             ELSE LET new == accrue(c.st.global_state.cum_reward_per_token, dc)
                  IN  IF new = None THEN Fail(c, "Overflow")
                      ELSE Step([c EXCEPT !.st.global_state.cum_reward_per_token = new,
                                          !.st.user_info[c.user].last_cum = new,
                                          !.delta_cum = dc], "write_cum")

\* lib.rs:186-195: the accrual.
ts_account(c) ==
    IF c.err # "Run" THEN c
    ELSE LET dc == delta_cum_of(c.delta_sol, c.st.global_state.total_supply)
         IN  IF dc = None THEN Fail(c, "Overflow")
             ELSE LET new == accrue(c.st.global_state.cum_reward_per_token, dc)
                  IN  IF new = None THEN Fail(c, "Overflow")
                      ELSE Step([c EXCEPT !.st.global_state.cum_reward_per_token = new,
                                          !.delta_cum = dc], "write_cum")

\* token::transfer of the tax from the user's token account to the token
\* vault, signed by the user (lib.rs:206-214); the token program rejects a
\* source account the signer does not own, and a source that holds too little.
ts_tax_transfer(c, tax) ==
    IF acct_owner(c.acct) # c.user THEN Fail(c, "OwnerMismatch")
    ELSE IF c.st.token_balance[c.acct] < tax THEN Fail(c, "TokenInsufficientFunds")
    ELSE Step([c EXCEPT !.st.token_balance[c.acct] = @ - tax,
                        !.st.token_vault = @ + tax,
                        !.tax_amount = tax], "tax_transfer")

\* lib.rs:197-214.
ts_collect_tax(c) ==
    IF c.err # "Run" THEN c
    ELSE LET tax == tax_amount_of(c.amount_in, c.st.config.tax_rate_bps)
         IN  IF tax = None THEN Fail(c, "Overflow") ELSE ts_tax_transfer(c, tax)

\* The balance lib.rs:217 reads: ctx.accounts.user_token_account.amount is the
\* value deserialized when the instruction started (no reload after the CPI).
ts_snapshot_value(c) == c.loaded_amount

\* lib.rs:216-217.
ts_snapshot(c) ==
    IF c.err # "Run" THEN c
    ELSE Step([c EXCEPT !.st.user_info[c.user].balance_snapshot = ts_snapshot_value(c)],
              "write_snapshot")

\* A mutant of taxed_swap_and_distribute: the accrual is made right after the
\* measurement, before the slippage and the vault checks.
taxed_swap_accrues_first(s, user, acct, amount_in, min_amount_out, route, delta) ==
    LET c0 == [NewCtx(s, user, acct) EXCEPT !.amount_in = amount_in,
                                            !.min_amount_out = min_amount_out,
                                            !.route = route, !.delta = delta]
    IN  Finish(ts_snapshot(ts_collect_tax(ts_vault_check(ts_slippage(ts_account(
            ts_measure(ts_swap(ts_settle(ts_validate(ts_accounts(c0)))))))))))

\* lib.rs:61-220.
taxed_swap_and_distribute(s, user, acct, amount_in, min_amount_out, route, delta) ==
    LET c0 == [NewCtx(s, user, acct) EXCEPT !.amount_in = amount_in,
                                            !.min_amount_out = min_amount_out,
                                            !.route = route, !.delta = delta]
    IN  Finish(ts_snapshot(ts_collect_tax(ts_account(ts_vault_check(ts_slippage(
            ts_measure(ts_swap(ts_settle(ts_validate(ts_accounts(c0)))))))))))

\* ------------------------------------------------------------ claim_rewards
\* instructions.rs Claim: user_info is the caller's PDA and must exist; the
\* user_token_account carries no constraint.
cl_accounts(c) ==
    IF c.st.user_info[c.user].exists THEN c ELSE Fail(c, "AccountNotInitialized")

\* lib.rs:228-262: the owed amount and its payout.
cl_settle(c) ==
    IF c.err # "Run" THEN c
    ELSE LET ui == c.st.user_info[c.user]
             owed == calculate_owed_rewards(ui.balance_snapshot,
                         c.st.global_state.cum_reward_per_token, ui.last_cum)
         IN  IF owed = None THEN Fail(c, "Overflow")
             ELSE IF owed > 0 THEN pay_reward([c EXCEPT !.owed = owed], owed)
             ELSE c

\* A mutant of cl_update: last_cum is not advanced.
cl_update_keeps_last_cum(c) ==
    IF c.err # "Run" THEN c
    ELSE Step([c EXCEPT !.st.user_info[c.user].balance_snapshot = c.loaded_amount],
              "write_snapshot")

\* A mutant of cl_update: the claim advances last_cum of every existing entry.
cl_update_every_entry(c) ==
    IF c.err # "Run" THEN c
    ELSE Step(Step([c EXCEPT
                 !.st.user_info = [u \in Users |->
                     IF u = c.user
                     THEN [c.st.user_info[u] EXCEPT
                               !.last_cum = c.st.global_state.cum_reward_per_token,
                               !.balance_snapshot = c.loaded_amount]
                     ELSE IF c.st.user_info[u].exists
                     THEN [c.st.user_info[u] EXCEPT
                               !.last_cum = c.st.global_state.cum_reward_per_token]
                     ELSE c.st.user_info[u]]],
                   "write_last_cum"), "write_snapshot")

\* lib.rs:263-265: the snapshot points.
cl_update(c) ==
    IF c.err # "Run" THEN c
    ELSE Step(Step([c EXCEPT !.st.user_info[c.user].last_cum =
                                 c.st.global_state.cum_reward_per_token,
                             !.st.user_info[c.user].balance_snapshot = c.loaded_amount],
                   "write_last_cum"), "write_snapshot")

\* A mutant of claim_rewards: a paused program rejects the claim.
claim_rewards_pausable(s, user, acct) ==
    IF s.config.paused THEN Fail(NewCtx(s, user, acct), "ProgramPaused")
    ELSE Finish(cl_update(cl_settle(cl_accounts(NewCtx(s, user, acct)))))

\* lib.rs:223-268.
claim_rewards(s, user, acct) ==
    Finish(cl_update(cl_settle(cl_accounts(NewCtx(s, user, acct)))))

\* ------------------------------------------------------------ update_config
\* What lib.rs:287 stores for a new_tax_rate_bps argument.
uc_rate(new_tax_rate_bps) == new_tax_rate_bps

\* A mutant of update_config: no check of the signer at all.
update_config_unchecked(s, signer, new_tax_rate_bps, paused) ==
    LET c == NewCtx(s, signer, signer)
    IN  Finish(Step([c EXCEPT !.st.config.tax_rate_bps = uc_rate(new_tax_rate_bps),
                              !.st.config.paused = paused], "write_config"))

\* A mutant of update_config: the owner's call also hands the ownership over.
update_config_moves_owner(s, signer, new_tax_rate_bps, paused) ==
    LET c == NewCtx(s, signer, signer)
    IN  IF ~has_one_owner(s, signer) THEN Fail(c, "ConstraintHasOne")
        ELSE Finish(Step([c EXCEPT !.st.config.tax_rate_bps = uc_rate(new_tax_rate_bps),
                                   !.st.config.paused = paused,
                                   !.st.config.owner = "none"], "write_config"))

\* lib.rs:271-290 behind the has_one = owner constraint of instructions.rs:117.
update_config(s, signer, new_tax_rate_bps, paused) ==
    LET c == NewCtx(s, signer, signer)
    IN  IF ~has_one_owner(s, signer) THEN Fail(c, "ConstraintHasOne")
        ELSE IF ~(signer = s.config.owner) THEN Fail(c, "Unauthorized")
        ELSE Finish(Step([c EXCEPT !.st.config.tax_rate_bps = uc_rate(new_tax_rate_bps),
                                   !.st.config.paused = paused], "write_config"))

\* ------------------------------------------------------ update_total_supply
\* A mutant of update_total_supply: any signer refreshes the supply.
update_total_supply_unchecked(s, signer) ==
    Finish(Step([NewCtx(s, signer, signer) EXCEPT
                     !.st.global_state.total_supply = s.mint_supply],
                "write_total_supply"))

\* lib.rs:306-326 behind the has_one = owner constraint of instructions.rs:130.
update_total_supply(s, signer) ==
    LET c == NewCtx(s, signer, signer)
    IN  IF ~has_one_owner(s, signer) THEN Fail(c, "ConstraintHasOne")
        ELSE IF ~(signer = s.config.owner) THEN Fail(c, "Unauthorized")
        ELSE Finish(Step([c EXCEPT !.st.global_state.total_supply = s.mint_supply],
                         "write_total_supply"))

\* ---------------------------------------------------------- close_user_info
\* lib.rs:293-302 with instructions.rs CloseUserInfo: the PDA is derived from
\* the signing user_wallet and must exist; it is closed as it is.
close_user_info(s, user, authority) ==
    LET c == NewCtx(s, user, user)
    IN  IF ~s.user_info[user].exists THEN Fail(c, "AccountNotInitialized")
        ELSE Finish(Step([c EXCEPT !.st.user_info[user] = NoUserInfo], "close"))

\* --------------------------------------------------------------- initialize
\* A mutant of initialize: the accounts are init_if_needed, so the instruction
\* runs again on a deployed program.
initialize_again(s, authority, tax_rate_bps, dex_program) ==
    LET c == NewCtx(s, authority, authority)
    IN  IF ~(tax_rate_bps <= BPS_DENOMINATOR) THEN Fail(c, "InvalidTaxRate")
        ELSE IF ~(s.mint_supply > 0) THEN Fail(c, "InvalidMintSupply")
        ELSE Finish(Step([c EXCEPT
                 !.st.initialized = TRUE,
                 !.st.config = [tax_rate_bps |-> tax_rate_bps, owner |-> authority,
                                dex_program |-> dex_program, paused |-> FALSE],
                 !.st.global_state = [total_supply |-> s.mint_supply,
                                      cum_reward_per_token |-> 0]], "init"))

\* A mutant of initialize: the mint's supply is not checked.
initialize_no_supply_check(s, authority, tax_rate_bps, dex_program) ==
    LET c == NewCtx(s, authority, authority)
    IN  IF s.initialized THEN Fail(c, "AccountAlreadyInUse")
        ELSE IF ~(tax_rate_bps <= BPS_DENOMINATOR) THEN Fail(c, "InvalidTaxRate")
        ELSE Finish(Step([c EXCEPT
                 !.st.initialized = TRUE,
                 !.st.config = [tax_rate_bps |-> tax_rate_bps, owner |-> authority,
                                dex_program |-> dex_program, paused |-> FALSE],
                 !.st.global_state = [total_supply |-> s.mint_supply,
                                      cum_reward_per_token |-> 0]], "init"))

\* lib.rs:23-58 with instructions.rs Initialize: the init constraints fail when
\* the PDAs exist already.
initialize(s, authority, tax_rate_bps, dex_program) ==
    LET c == NewCtx(s, authority, authority)
    IN  IF s.initialized THEN Fail(c, "AccountAlreadyInUse")
        ELSE IF ~(tax_rate_bps <= BPS_DENOMINATOR) THEN Fail(c, "InvalidTaxRate")
        ELSE IF ~(s.mint_supply > 0) THEN Fail(c, "InvalidMintSupply")
        ELSE Finish(Step([c EXCEPT
                 !.st.initialized = TRUE,
                 !.st.config = [tax_rate_bps |-> tax_rate_bps, owner |-> authority,
                                dex_program |-> dex_program, paused |-> FALSE],
                 !.st.global_state = [total_supply |-> s.mint_supply,
                                      cum_reward_per_token |-> 0]], "init"))

\* ------------------------------------------------------------------ history
\* The part of a payout made with snapshot b that is paid for accrual k.
share_of(b, k) == (b * accruals[k].dc) \div SCALE

\* paid_for after a settlement of `user` made with balance snapshot b: every
\* accrual recorded since the user's last settlement gets its share.
attribute(user, b) ==
    [k \in 1..Len(paid_for) |->
        IF k > settled_upto[user] THEN paid_for[k] + share_of(b, k) ELSE paid_for[k]]


\* ------------------------------------------------------------------ actions
Commit(s) ==
    /\ initialized' = s.initialized
    /\ config' = s.config
    /\ global_state' = s.global_state
    /\ user_info' = s.user_info
    /\ token_balance' = s.token_balance
    /\ token_vault' = s.token_vault
    /\ mint_supply' = s.mint_supply
    /\ reward_vault' = s.reward_vault
    /\ dex_lamports' = s.dex_lamports

\* One invocation of a handler with outcome c: the runtime commits or discards.
Invoke(c) == Commit(Committed(Cur, c))

ledgerVars == <<accruals, paid_for, settled_upto>>

\* The history variables a settlement leaves alone.
closeVars == <<closed_last_cum, fnVars>>

\* claimed after an invocation of op by user with outcome c.
claimed_after(op, user, c) ==
    IF c.err # "Ok" THEN claimed
    ELSE IF op = "claim_rewards" THEN claimed \cup {user}
    ELSE {}

\* closed_last_cum after a close_user_info of user's entry with outcome c.
closed_after(user, c) ==
    IF c.err # "Ok" THEN closed_last_cum
    ELSE [closed_last_cum EXCEPT ![user] = user_info[user].last_cum]

Initialize ==
    \E authority \in Users, rate \in TaxRates :
        /\ Invoke(initialize(Cur, authority, rate, "dex"))
        /\ UNCHANGED histVars

TaxedSwap ==
    /\ initialized
    /\ \E user \in Users, acct \in TokenAccounts, amount_in \in Amounts,
          min_amount_out \in MinOuts, o \in SwapOutcomes :
        LET c == taxed_swap_and_distribute(Cur, user, acct, amount_in, min_amount_out,
                                           o.route, o.delta)
        IN  /\ Invoke(c)
            /\ claimed' = claimed_after("taxed_swap_and_distribute", user, c)
            /\ UNCHANGED <<ledgerVars, closeVars>>

ClaimRewards ==
    /\ initialized
    /\ \E user \in Users, acct \in TokenAccounts :
        LET c == claim_rewards(Cur, user, acct)
        IN  /\ Invoke(c)
            /\ claimed' = claimed_after("claim_rewards", user, c)
            /\ UNCHANGED <<ledgerVars, closeVars>>

\* An update_config invocation signed by signer.
UpdateConfigBy(signer) ==
    \E rate \in TaxRates, paused \in BOOLEAN :
        /\ Invoke(update_config(Cur, signer, rate, paused))
        /\ UNCHANGED histVars

UpdateConfig ==
    /\ initialized
    /\ \E signer \in Users : UpdateConfigBy(signer)

UpdateTotalSupply ==
    /\ initialized
    /\ \E signer \in Users :
        /\ Invoke(update_total_supply(Cur, signer))
        /\ UNCHANGED histVars

CloseUserInfo ==
    /\ initialized
    /\ \E user \in Users, authority \in Users :
        LET c == close_user_info(Cur, user, authority)
        IN  /\ Invoke(c)
            /\ closed_last_cum' = closed_after(user, c)
            /\ UNCHANGED <<ledgerVars, claimed, fnVars>>

\* The environment: the token program's mint_to, burn and transfer on the
\* users' token accounts, outside this program.
TokenMint ==
    /\ mint_supply < MaxSupply
    /\ \E u \in MintRecipients :
        /\ token_balance' = [token_balance EXCEPT ![u] = @ + 1]
        /\ mint_supply' = mint_supply + 1
    /\ UNCHANGED <<initialized, config, global_state, user_info, token_vault,
                   reward_vault, dex_lamports, histVars>>

TokenBurn ==
    /\ \E u \in Users :
        /\ token_balance[u] > 0
        /\ token_balance' = [token_balance EXCEPT ![u] = @ - 1]
        /\ mint_supply' = mint_supply - 1
    /\ UNCHANGED <<initialized, config, global_state, user_info, token_vault,
                   reward_vault, dex_lamports, histVars>>

TokenTransfer ==
    /\ \E from \in Users, to \in Users :
        /\ from # to
        /\ token_balance[from] > 0
        /\ token_balance' = [token_balance EXCEPT ![from] = @ - 1, ![to] = @ + 1]
    /\ UNCHANGED <<initialized, config, global_state, user_info, token_vault, mint_supply,
                   reward_vault, dex_lamports, histVars>>

\* Every instruction of the program, with the mint's supply moving; the
\* tokens are minted to one holder.
Next ==
    \/ Initialize
    \/ TaxedSwap
    \/ ClaimRewards
    \/ UpdateConfig
    \/ UpdateTotalSupply
    \/ CloseUserInfo
    \/ TokenMint
    \/ TokenBurn

Spec == Init /\ [][Next]_vars

\* ------------------------------------------------------- the ledger's spec
\* Two holders under a fixed policy and a fixed supply: the program after
\* one token was minted to each user and alice called initialize with
\* tax_rate_bps = 0.  Every holder passes its own token account and a nonzero
\* amount_in (a zero one is rejected by the validation, which Spec explores).
\* The history variables follow every settlement.
InitLedger ==
    /\ initialized = TRUE
    /\ config = [tax_rate_bps |-> 0, owner |-> "alice", dex_program |-> "dex",
                 paused |-> FALSE]
    /\ global_state = [total_supply |-> 2, cum_reward_per_token |-> 0]
    /\ user_info = [u \in Users |-> NoUserInfo]
    /\ token_balance = [u \in Users |-> 1]
    /\ token_vault = 0
    /\ mint_supply = 2
    /\ reward_vault = 0
    /\ dex_lamports = LedgerLiquidity
    /\ accruals = <<>>
    /\ paid_for = <<>>
    /\ settled_upto = [u \in Users |-> 0]
    /\ claimed = {}
    /\ closed_last_cum = [u \in Users |-> 0]
    /\ fn_call = NoCall
    /\ fn_ret = NoReturn
    /\ legacy = NoLegacy

\* The history after a successful settlement of user made with the balance
\* snapshot b; a successful swap with delta_cum > 0 is recorded as an accrual.
Track(op, user, b, c) ==
    IF c.err # "Ok" THEN UNCHANGED ledgerVars
    ELSE /\ settled_upto' = [settled_upto EXCEPT ![user] = Len(accruals)]
         /\ IF op = "taxed_swap_and_distribute" /\ c.delta_cum > 0
            THEN /\ accruals' = Append(accruals, [out |-> c.delta_sol, dc |-> c.delta_cum])
                 /\ paid_for' = Append(attribute(user, b), 0)
            ELSE /\ accruals' = accruals
                 /\ paid_for' = attribute(user, b)

LedgerSwap ==
    \E user \in Users, amount_in \in Amounts \ {0}, min_amount_out \in MinOuts,
       o \in SwapOutcomes :
        LET c == taxed_swap_and_distribute(Cur, user, user, amount_in, min_amount_out,
                                           o.route, o.delta)
        IN  /\ Invoke(c)
            /\ claimed' = claimed_after("taxed_swap_and_distribute", user, c)
            /\ Track("taxed_swap_and_distribute", user, user_info[user].balance_snapshot, c)
            /\ UNCHANGED closeVars

LedgerClaim ==
    \E user \in Users :
        LET c == claim_rewards(Cur, user, user)
        IN  /\ Invoke(c)
            /\ claimed' = claimed_after("claim_rewards", user, c)
            /\ Track("claim_rewards", user, user_info[user].balance_snapshot, c)
            /\ UNCHANGED closeVars

NextLedger ==
    \/ LedgerSwap
    \/ LedgerClaim
    \/ TokenTransfer

SpecLedger == InitLedger /\ [][NextLedger]_vars

\* ------------------------------------------------------ the arithmetic's spec
\* The program deployed with a tax rate, a supply, an accumulator value and a
\* holder's balance drawn up to the integer widths; the holder swaps and claims.
InitMath ==
    /\ initialized = TRUE
    /\ \E rate \in MathRates :
        config = [tax_rate_bps |-> rate, owner |-> "alice", dex_program |-> "dex",
                  paused |-> FALSE]
    /\ \E supply \in MathSupplies, cum \in MathCums :
        global_state = [total_supply |-> supply, cum_reward_per_token |-> cum]
    /\ user_info = [u \in Users |-> NoUserInfo]
    /\ \E b \in MathBalances : token_balance = [u \in Users |-> IF u = "alice" THEN b ELSE 0]
    /\ token_vault = 0
    /\ mint_supply = U64_MAX
    /\ reward_vault = 0
    /\ dex_lamports = MathLiquidity
    /\ accruals = <<>>
    /\ paid_for = <<>>
    /\ settled_upto = [u \in Users |-> 0]
    /\ claimed = {}
    /\ closed_last_cum = [u \in Users |-> 0]
    /\ fn_call = NoCall
    /\ fn_ret = NoReturn
    /\ legacy = NoLegacy

MathSwap ==
    /\ token_vault <= MathTaxCap
    /\ \E user \in Users, amount_in \in MathAmounts, min_amount_out \in MinOuts,
          o \in SwapOutcomes :
        LET c == taxed_swap_and_distribute(Cur, user, user, amount_in, min_amount_out,
                                           o.route, o.delta)
        IN  /\ Invoke(c)
            /\ claimed' = claimed_after("taxed_swap_and_distribute", user, c)
            /\ UNCHANGED <<ledgerVars, closeVars>>

MathClaim ==
    \E user \in Users :
        LET c == claim_rewards(Cur, user, user)
        IN  /\ Invoke(c)
            /\ claimed' = claimed_after("claim_rewards", user, c)
            /\ UNCHANGED <<ledgerVars, closeVars>>

NextMath ==
    \/ MathSwap
    \/ MathClaim

SpecMath == InitMath /\ [][NextMath]_vars

\* ------------------------------------------------------- the functions' spec
\* The program's two arithmetic functions applied to arguments drawn up to the
\* integer widths: the tax computation of lib.rs:198-202 on (amount_in,
\* tax_rate_bps) and calculate_owed_rewards on (balance, cum_now, cum_last).
\* fn_ret.value is None when the function returned Err(Overflow).
FnAmounts == {0, 1, 7, U64_MAX \div BPS_DENOMINATOR, U64_MAX \div BPS_DENOMINATOR + 1, U64_MAX}
FnRates == {0, 1, 3333, 5000, 6666, BPS_DENOMINATOR}
FnBalances == {0, 1, 2, 3, (U64_MAX + 1) \div 2, U64_MAX}
FnCums == {0, SCALE \div 2, SCALE, SCALE + 1, 2 * SCALE, U128_MAX}

FnCalls ==
    {[fn |-> "tax_amount", a |-> amount_in, b |-> rate, c |-> 0] :
        amount_in \in FnAmounts, rate \in FnRates}
    \cup
    {[fn |-> "calculate_owed_rewards", a |-> balance, b |-> cum_now, c |-> cum_last] :
        balance \in FnBalances, cum_now \in FnCums, cum_last \in FnCums}

InitFn ==
    /\ initialized = FALSE
    /\ config = NoConfig
    /\ global_state = [total_supply |-> 0, cum_reward_per_token |-> 0]
    /\ user_info = [u \in Users |-> NoUserInfo]
    /\ token_balance = [u \in Users |-> 0]
    /\ token_vault = 0
    /\ mint_supply = 0
    /\ reward_vault = 0
    /\ dex_lamports = 0
    /\ accruals = <<>>
    /\ paid_for = <<>>
    /\ settled_upto = [u \in Users |-> 0]
    /\ claimed = {}
    /\ closed_last_cum = [u \in Users |-> 0]
    /\ fn_call \in FnCalls
    /\ fn_ret = NoReturn
    /\ legacy = NoLegacy

FnTax ==
    /\ fn_call.fn = "tax_amount"
    /\ ~fn_ret.done
    /\ fn_ret' = [done |-> TRUE, value |-> tax_amount_of(fn_call.a, fn_call.b)]
    /\ UNCHANGED <<progVars, accruals, paid_for, settled_upto, claimed, closed_last_cum,
                   fn_call, legacy>>

FnOwed ==
    /\ fn_call.fn = "calculate_owed_rewards"
    /\ ~fn_ret.done
    /\ fn_ret' = [done |-> TRUE,
                  value |-> calculate_owed_rewards(fn_call.a, fn_call.b, fn_call.c)]
    /\ UNCHANGED <<progVars, accruals, paid_for, settled_upto, claimed, closed_last_cum,
                   fn_call, legacy>>

NextFn ==
    \/ FnTax
    \/ FnOwed

SpecFn == InitFn /\ [][NextFn]_vars

\* ------------------------------------------------------ the legacy processor
\* src/processor.rs: the native (non-Anchor) program with the instructions
\* Buy, Sell and ClaimRewards over a FeePool, a RewardPool and a HolderInfo
\* account.  An instruction that returns an error commits nothing.

\* processor.rs:71, scaled with the integer widths (1_000_000 in the source).
SWAP_THRESHOLD == 12
\* Lamports an account holds besides what its state accounts for (its rent).
LegacyRent == 1

\* The struct an account's data holds.  Borsh's try_from_slice succeeds only
\* on data of exactly the struct's length, so data that deserializes as one
\* struct does not deserialize as another of a different size.
LegacyLayouts == {"FeePool", "HolderInfo"}
try_from_slice(layout, struct) == layout = struct

\* Instruction arguments and account lists drawn.
LegacyAmounts == {0, 19, 20, 100, 240, U64_MAX \div 5, U64_MAX \div 5 + 1, U64_MAX}
LegacyAccountsLen == {5, 12}
LegacyBalances == {0, 2, 5}
LegacyPending == {0, 1, 2, 3}

LegacyCtx(s) ==
    [err |-> "Run", st |-> s, steps |-> <<>>, tax |-> 0, net_amount |-> 0,
     swap_amount |-> 0]

\* processor.rs:23-26, 82 / 168: load_fee_pool of the first account.
lg_load(c, layout) ==
    IF c.err # "Run" THEN c
    ELSE IF ~try_from_slice(layout, "FeePool") THEN Fail(c, "InvalidAccountData")
    ELSE c

\* processor.rs:37-67, 164: Sell updates the snapshot first, and passes the fee
\* pool account as the holder account, whose data must then be a HolderInfo.
lg_snapshot(c, layout) ==
    IF c.err # "Run" THEN c
    ELSE IF ~try_from_slice(layout, "HolderInfo") THEN Fail(c, "InvalidAccountData")
    ELSE Step(c, "snapshot")

\* processor.rs:85-89 / 171-175: the 5% tax and the net amount, in u64.
lg_tax(c, amount) ==
    IF c.err # "Run" THEN c
    ELSE LET prod == checked_mul(amount, 5, U64_MAX)
         IN  IF prod = None THEN Fail(c, "Overflow")
             ELSE LET tax == checked_div(prod, 100)
                      net == checked_sub(amount, tax)
                  IN  IF net = None THEN Fail(c, "Overflow")
                      ELSE Step([c EXCEPT !.tax = tax, !.net_amount = net], "tax")

\* processor.rs:92-96 / 178-182: the tax is added to the fee pool and saved.
lg_accumulate(c) ==
    IF c.err # "Run" THEN c
    ELSE LET sum == checked_add(c.st.collected_tokens, c.tax, U64_MAX)
         IN  IF sum = None THEN Fail(c, "Overflow")
             ELSE Step([c EXCEPT !.st.collected_tokens = sum], "save_fee_pool")

\* swap.rs:12-108 of the legacy crate: the account list must hold 12 accounts,
\* then the exchange program is invoked; dex_ok is what it returns.
legacy_swap_tokens_for_sol(accounts_len, dex_ok) ==
    IF accounts_len < 12 THEN "NotEnoughAccountKeys"
    ELSE IF dex_ok THEN "Ok"
    ELSE "DexError"

\* A mutant of lg_swap: the swap is triggered above the threshold only.
lg_swap_above_threshold(c, accounts_len, dex_ok) ==
    IF c.err # "Run" THEN c
    ELSE IF c.st.collected_tokens > SWAP_THRESHOLD
    THEN LET res == legacy_swap_tokens_for_sol(accounts_len, dex_ok)
             c1 == Step([c EXCEPT !.swap_amount = c.st.collected_tokens], "swap_call")
         IN  IF res # "Ok" THEN Fail(c1, res)
             ELSE Step([c1 EXCEPT !.st.collected_tokens = 0], "reset_fee_pool")
    ELSE c

\* processor.rs:99-105 / 185-191: at the threshold the whole pool is swapped
\* and the pool is reset.
lg_swap(c, accounts_len, dex_ok) ==
    IF c.err # "Run" THEN c
    ELSE IF c.st.collected_tokens >= SWAP_THRESHOLD
    THEN LET res == legacy_swap_tokens_for_sol(accounts_len, dex_ok)
             c1 == Step([c EXCEPT !.swap_amount = c.st.collected_tokens], "swap_call")
         IN  IF res # "Ok" THEN Fail(c1, res)
             ELSE Step([c1 EXCEPT !.st.collected_tokens = 0], "reset_fee_pool")
    ELSE c

\* processor.rs:121-145 / 207-231: the SPL transfer of the net amount through
\* the token program; transfer_ok is what the token program returns.
lg_transfer(c, accounts_len, transfer_ok) ==
    IF c.err # "Run" THEN c
    ELSE IF accounts_len < 5 THEN Fail(c, "NotEnoughAccountKeys")
    ELSE IF ~transfer_ok THEN Fail(c, "TransferError")
    ELSE Step(c, "transfer")

\* processor.rs:76-152.
legacy_buy(s, amount, layout, accounts_len, dex_ok, transfer_ok) ==
    Finish(lg_transfer(lg_swap(lg_accumulate(lg_tax(lg_load(LegacyCtx(s), layout), amount)),
                               accounts_len, dex_ok),
                       accounts_len, transfer_ok))

\* processor.rs:153-237.
legacy_sell(s, amount, layout, accounts_len, dex_ok, transfer_ok) ==
    Finish(lg_transfer(lg_swap(lg_accumulate(lg_tax(lg_load(lg_snapshot(LegacyCtx(s), layout),
                                                            layout), amount)),
                               accounts_len, dex_ok),
                       accounts_len, transfer_ok))

\* A mutant of lg_payout: pending_rewards is not reset.
lg_payout_keeps_pending(c, overflow_checks) ==
    LET pending_rewards == c.st.pending_rewards
    IN  IF c.st.reward_pool_lamports < pending_rewards
        THEN Fail(c, IF overflow_checks THEN "Panic" ELSE "UnbalancedInstruction")
        ELSE Step(Step([c EXCEPT !.st.reward_pool_lamports = @ - pending_rewards,
                                 !.st.holder_lamports = @ + pending_rewards,
                                 !.st.sol_balance = @ - pending_rewards],
                       "pay"), "write_reward_pool")

\* processor.rs:280-289: the lamports move, pending_rewards is reset and the
\* pool's sol_balance is reduced.  The lamport subtraction is unchecked: on a
\* pool account with fewer lamports it panics (overflow checks on) or wraps, and
\* the runtime then rejects the unbalanced instruction.
lg_payout(c, overflow_checks) ==
    LET pending_rewards == c.st.pending_rewards
    IN  IF c.st.reward_pool_lamports < pending_rewards
        THEN Fail(c, IF overflow_checks THEN "Panic" ELSE "UnbalancedInstruction")
        ELSE Step(Step(Step([c EXCEPT !.st.reward_pool_lamports = @ - pending_rewards,
                                      !.st.holder_lamports = @ + pending_rewards,
                                      !.st.pending_rewards = 0,
                                      !.st.sol_balance = @ - pending_rewards],
                            "pay"), "write_holder_info"), "write_reward_pool")

\* processor.rs:238-294.
legacy_claim_rewards(s, overflow_checks) ==
    LET c == LegacyCtx(s)
    IN  IF s.pending_rewards = 0 THEN Finish(c)
        ELSE IF s.sol_balance < s.pending_rewards THEN Fail(c, "InsufficientFunds")
        ELSE Finish(lg_payout(c, overflow_checks))

\* The accounts as deployed: an empty FeePool, a RewardPool whose lamports
\* cover its sol_balance, and a holder with rewards pending.
InitLegacy ==
    /\ initialized = FALSE
    /\ config = NoConfig
    /\ global_state = [total_supply |-> 0, cum_reward_per_token |-> 0]
    /\ user_info = [u \in Users |-> NoUserInfo]
    /\ token_balance = [u \in Users |-> 0]
    /\ token_vault = 0
    /\ mint_supply = 0
    /\ reward_vault = 0
    /\ dex_lamports = 0
    /\ accruals = <<>>
    /\ paid_for = <<>>
    /\ settled_upto = [u \in Users |-> 0]
    /\ claimed = {}
    /\ closed_last_cum = [u \in Users |-> 0]
    /\ fn_call = NoCall
    /\ fn_ret = NoReturn
    /\ \E balance \in LegacyBalances, pending \in LegacyPending :
        legacy = [collected_tokens |-> 0, sol_balance |-> balance,
                  reward_pool_lamports |-> balance + LegacyRent,
                  pending_rewards |-> pending, holder_lamports |-> LegacyRent]

LegacyUnchanged ==
    UNCHANGED <<progVars, accruals, paid_for, settled_upto, claimed, closed_last_cum,
                fn_call, fn_ret>>

LegacyBuy ==
    /\ \E amount \in LegacyAmounts, layout \in LegacyLayouts,
          accounts_len \in LegacyAccountsLen, dex_ok \in BOOLEAN, transfer_ok \in BOOLEAN :
        legacy' = Committed(legacy, legacy_buy(legacy, amount, layout, accounts_len,
                                               dex_ok, transfer_ok))
    /\ LegacyUnchanged

LegacySell ==
    /\ \E amount \in LegacyAmounts, layout \in LegacyLayouts,
          accounts_len \in LegacyAccountsLen, dex_ok \in BOOLEAN, transfer_ok \in BOOLEAN :
        legacy' = Committed(legacy, legacy_sell(legacy, amount, layout, accounts_len,
                                                dex_ok, transfer_ok))
    /\ LegacyUnchanged

LegacyClaimRewards ==
    /\ \E overflow_checks \in BOOLEAN :
        legacy' = Committed(legacy, legacy_claim_rewards(legacy, overflow_checks))
    /\ LegacyUnchanged

NextLegacy ==
    \/ LegacyBuy
    \/ LegacySell
    \/ LegacyClaimRewards

SpecLegacy == InitLegacy /\ [][NextLegacy]_vars

\* =================================================================== claims
Range(seq) == {seq[i] : i \in 1..Len(seq)}

\* x was executed, and before y.
Before(seq, x, y) ==
    \E i, j \in 1..Len(seq) : seq[i] = x /\ seq[j] = y /\ i < j

\* The outcome of a taxed swap invoked in the current state.
SwapRun(user, acct, amount_in, min_amount_out, o) ==
    taxed_swap_and_distribute(Cur, user, acct, amount_in, min_amount_out, o.route, o.delta)

\* The accounts the claims name are, after the invocation, as they were before.
Untouched(user, c) ==
    LET s == Committed(Cur, c)
    IN  /\ s.global_state = global_state
        /\ s.token_vault = token_vault
        /\ s.reward_vault = reward_vault
        /\ s.user_info[user] = user_info[user]
        /\ s.token_balance = token_balance
        /\ s.config = config

\* C1: GlobalState.cum_reward_per_token never decreases: every step of every
\* behaviour (a successful or failed taxed_swap_and_distribute, claim_rewards,
\* update_config, update_total_supply, close_user_info) leaves it at least as
\* large as it was.
C1_CumNeverDecreases ==
    [][global_state'.cum_reward_per_token >= global_state.cum_reward_per_token]_vars

\* Two accruals have happened: an entry was settled between them.
C1_Witness ==
    \E u \in Users :
        /\ user_info[u].exists
        /\ user_info[u].last_cum > 0
        /\ user_info[u].last_cum < global_state.cum_reward_per_token

\* C2: no over-distribution: for every accrual, the amounts paid for it to all
\* holders together (by claim_rewards or by the settle step of later swaps) never
\* exceed its proceeds actual_out.
C2_NoOverDistribution ==
    \A k \in 1..Len(accruals) : paid_for[k] <= accruals[k].out

\* C3: slippage abort: whenever the difference of the reward vault measured
\* across the swap call is less than min_amount_out, the invocation fails with
\* SlippageExceeded and GlobalState, the token vault, the reward vault and the
\* caller's ledger entry are as before the call.
C3_SlippageAbort ==
    \A user \in Users, acct \in TokenAccounts, amount_in \in Amounts,
       min_amount_out \in MinOuts, o \in SwapOutcomes :
        LET c == SwapRun(user, acct, amount_in, min_amount_out, o)
        IN  ("measure" \in Range(c.steps) /\ c.delta_sol < min_amount_out)
                => (c.err = "SlippageExceeded" /\ Untouched(user, c))

\* A swap that paid the caller's pending reward and then met the slippage abort.
C3_Witness ==
    \E user \in Users, acct \in TokenAccounts, amount_in \in Amounts,
       min_amount_out \in MinOuts, o \in SwapOutcomes :
        LET c == SwapRun(user, acct, amount_in, min_amount_out, o)
        IN  /\ c.err = "SlippageExceeded"
            /\ "pay_owed" \in Range(c.steps)
            /\ c.st.reward_vault # reward_vault

\* C4: step ordering in taxed_swap_and_distribute: cum_reward_per_token is
\* written only after the slippage check and the vault sufficiency check have
\* passed; the tax transfer and the snapshot write come only after that write;
\* an invocation that does not reach the write (it fails in validation, slippage,
\* vault sufficiency or accrual) has made neither the tax transfer nor the
\* snapshot write and its GlobalState is the one it started with.
C4_StepOrdering ==
    \A user \in Users, acct \in TokenAccounts, amount_in \in Amounts,
       min_amount_out \in MinOuts, o \in SwapOutcomes :
        LET c == SwapRun(user, acct, amount_in, min_amount_out, o)
            done == Range(c.steps)
        IN  /\ "write_cum" \in done =>
                /\ Before(c.steps, "slippage_ok", "write_cum")
                /\ Before(c.steps, "vault_ok", "write_cum")
            /\ "tax_transfer" \in done => Before(c.steps, "write_cum", "tax_transfer")
            /\ "write_snapshot" \in done => Before(c.steps, "write_cum", "write_snapshot")
            /\ "write_cum" \notin done =>
                /\ c.err # "Ok"
                /\ "tax_transfer" \notin done
                /\ "write_snapshot" \notin done
                /\ c.st.global_state = global_state
            /\ c.err \in {"ProgramPaused", "InvalidInstruction", "InvalidTaxRate",
                          "InvalidTokenAccount", "InsufficientFunds", "InvalidMintSupply",
                          "SlippageExceeded", "InsufficientRewardVault"}
                  => "write_cum" \notin done

\* A swap that ran to the end, paying a pending reward and moving a tax, and
\* in the same state one that was stopped by the vault sufficiency check.
C4_Witness ==
    \E user \in Users, amount_in \in Amounts, min_amount_out \in MinOuts,
       o \in SwapOutcomes, o2 \in SwapOutcomes :
        LET c == SwapRun(user, user, amount_in, min_amount_out, o)
            c2 == SwapRun(user, user, amount_in, min_amount_out, o2)
        IN  /\ c.err = "Ok"
            /\ c.steps = <<"pay_owed", "write_last_cum", "swap_call", "measure",
                           "slippage_ok", "vault_ok", "write_cum", "tax_transfer",
                           "write_snapshot">>
            /\ c.tax_amount > 0
            /\ c.st.global_state.cum_reward_per_token > global_state.cum_reward_per_token
            /\ c2.err = "InsufficientRewardVault"

\* C5: while Config.paused, taxed_swap_and_distribute fails with ProgramPaused
\* for every caller, token account, amount_in, min_amount_out and route
\* behaviour (the pause check comes first), executes none of its steps and
\* changes nothing.
C5_PausedRejectsFirst ==
    (initialized /\ config.paused) =>
        \A user \in Users, acct \in TokenAccounts, amount_in \in Amounts,
           min_amount_out \in MinOuts, o \in SwapOutcomes :
            LET c == SwapRun(user, acct, amount_in, min_amount_out, o)
            IN  /\ c.err = "ProgramPaused"
                /\ c.steps = <<>>
                /\ Committed(Cur, c) = Cur

\* Paused, in a state where the swap would otherwise run and pay a reward, and
\* where another rejection reason (an invalid rate) is present as well.
C5_Witness ==
    /\ initialized
    /\ config.paused
    /\ config.tax_rate_bps > BPS_DENOMINATOR
    /\ global_state.total_supply > 0
    /\ \E u \in Users :
        /\ token_balance[u] > 0
        /\ user_info[u].exists
        /\ calculate_owed_rewards(user_info[u].balance_snapshot,
               global_state.cum_reward_per_token, user_info[u].last_cum) > 0
        /\ SwapRun(u, u, 1, 0, [route |-> "ok", delta |-> 0]).err = "ProgramPaused"

\* The validation conditions of C6, each taken when the checks before it pass.
C6_ZeroAmount(amount_in) == amount_in = 0

C6_BadRate(amount_in) == amount_in > 0 /\ config.tax_rate_bps > BPS_DENOMINATOR

C6_ShortBalance(acct, amount_in) ==
    /\ amount_in > 0
    /\ config.tax_rate_bps <= BPS_DENOMINATOR
    /\ acct_mint(acct) = Mint
    /\ acct_amount(Cur, acct) < amount_in

C6_NoSupply(acct, amount_in) ==
    /\ amount_in > 0
    /\ config.tax_rate_bps <= BPS_DENOMINATOR
    /\ acct_mint(acct) = Mint
    /\ acct_amount(Cur, acct) >= amount_in
    /\ global_state.total_supply = 0

\* C6: validation of taxed_swap_and_distribute when not paused, the checks read
\* in the handler's order: amount_in == 0 gives InvalidInstruction;
\* tax_rate_bps > 10000 gives InvalidTaxRate; a token balance below amount_in
\* gives InsufficientFunds; total_supply == 0 gives InvalidMintSupply; in each
\* case no reward is paid, the swap is not called, and nothing changes.
C6_Validation ==
    (initialized /\ ~config.paused) =>
        \A user \in Users, acct \in TokenAccounts, amount_in \in Amounts,
           min_amount_out \in MinOuts, o \in SwapOutcomes :
            LET c == SwapRun(user, acct, amount_in, min_amount_out, o)
            IN  /\ C6_ZeroAmount(amount_in) => c.err = "InvalidInstruction"
                /\ C6_BadRate(amount_in) => c.err = "InvalidTaxRate"
                /\ C6_ShortBalance(acct, amount_in) => c.err = "InsufficientFunds"
                /\ C6_NoSupply(acct, amount_in) => c.err = "InvalidMintSupply"
                /\ (\/ C6_ZeroAmount(amount_in)
                    \/ C6_BadRate(amount_in)
                    \/ C6_ShortBalance(acct, amount_in)
                    \/ C6_NoSupply(acct, amount_in))
                      => /\ c.steps = <<>>
                         /\ c.st.reward_vault = reward_vault
                         /\ c.st.wallet[user] = 0
                         /\ Committed(Cur, c) = Cur

\* Not paused, a holder with tokens and a pending reward, and total_supply 0:
\* the last of the four checks is the one that rejects.
C6_Witness ==
    /\ initialized
    /\ ~config.paused
    /\ global_state.total_supply = 0
    /\ \E u \in Users :
        /\ token_balance[u] > 0
        /\ user_info[u].exists
        /\ user_info[u].balance_snapshot > 0
        /\ user_info[u].last_cum < global_state.cum_reward_per_token
        /\ SwapRun(u, u, 1, 0, [route |-> "ok", delta |-> 0]).err = "InvalidMintSupply"

\* What an update_config signed by a non-owner does, with the error kind e.
C7_NonOwnerFails(e) ==
    initialized =>
        \A signer \in Users \ {config.owner}, rate \in TaxRates, paused \in BOOLEAN :
            LET c == update_config(Cur, signer, rate, paused)
            IN  c.err = e /\ Committed(Cur, c).config = config

\* Every step that changes tax_rate_bps or paused of the existing Config is an
\* update_config invocation signed by Config.owner.
C7_OnlyOwnerChanges ==
    (/\ initialized
     /\ \/ config'.tax_rate_bps # config.tax_rate_bps
        \/ config'.paused # config.paused)
        => UpdateConfigBy(config.owner)

C9_RateInRange == config.tax_rate_bps <= BPS_DENOMINATOR

\* C10: idempotence of settlement: a holder whose claim_rewards succeeded, with
\* no successful taxed swap since, is paid owed_amount == 0 by the next
\* claim_rewards, which moves no lamports.
C10_SecondClaimPaysNothing ==
    \A user \in claimed, acct \in TokenAccounts :
        LET c == claim_rewards(Cur, user, acct)
        IN  /\ c.owed = 0
            /\ "pay_owed" \notin Range(c.steps)
            /\ c.st.reward_vault = reward_vault
            /\ c.st.wallet[user] = 0

\* A holder with tokens in the snapshot has claimed a reward that was paid out
\* of the vault, and the second claim succeeds.
C10_Witness ==
    \E user \in claimed :
        /\ user_info[user].exists
        /\ user_info[user].balance_snapshot > 0
        /\ user_info[user].last_cum > 0
        /\ dex_lamports + reward_vault < DexLiquidity
        /\ claim_rewards(Cur, user, user).err = "Ok"

\* C11: every successful settlement sets last_cum to the cum_reward_per_token
\* read at settlement time, also when owed == 0: after a successful
\* claim_rewards the caller's last_cum is the current cum_reward_per_token, and
\* after a successful taxed_swap_and_distribute it is the cum_reward_per_token
\* from before the invocation's own accrual.
C11_SettlementAdvancesLastCum ==
    initialized =>
        /\ \A user \in Users, acct \in TokenAccounts, amount_in \in Amounts,
              min_amount_out \in MinOuts, o \in SwapOutcomes :
            LET c == SwapRun(user, acct, amount_in, min_amount_out, o)
            IN  c.err = "Ok" =>
                    /\ c.st.user_info[user].last_cum = global_state.cum_reward_per_token
                    /\ c.st.global_state.cum_reward_per_token
                          = global_state.cum_reward_per_token + c.delta_cum
        /\ \A user \in Users, acct \in TokenAccounts :
            LET c == claim_rewards(Cur, user, acct)
            IN  c.err = "Ok" =>
                    /\ c.st.user_info[user].last_cum = c.st.global_state.cum_reward_per_token
                    /\ c.st.user_info[user].last_cum = global_state.cum_reward_per_token

\* A swap that settles an entry behind the accumulator with owed == 0 (the
\* share rounds to nothing) and then makes an accrual of its own, and a claim of
\* the same entry that pays nothing.
C11_Witness ==
    \E user \in Users, amount_in \in Amounts, min_amount_out \in MinOuts,
       o \in SwapOutcomes :
        LET c == SwapRun(user, user, amount_in, min_amount_out, o)
            k == claim_rewards(Cur, user, user)
        IN  /\ user_info[user].exists
            /\ user_info[user].last_cum < global_state.cum_reward_per_token
            /\ c.err = "Ok"
            /\ c.owed = 0
            /\ c.delta_cum > 0
            /\ k.err = "Ok"
            /\ k.owed = 0

\* C12: for every existing ledger entry, in every reachable state,
\* last_cum <= GlobalState.cum_reward_per_token, so that the subtraction of
\* calculate_owed_rewards never fails.
C12_LastCumBelowCum ==
    \A u \in Users :
        user_info[u].exists =>
            /\ user_info[u].last_cum <= global_state.cum_reward_per_token
            /\ checked_sub(global_state.cum_reward_per_token, user_info[u].last_cum) # None

\* An entry settled at the accumulator's current, positive value, after it had
\* been behind it: the bound is met with equality.
C12_Witness ==
    \E u \in Users :
        /\ user_info[u].exists
        /\ user_info[u].last_cum = global_state.cum_reward_per_token
        /\ user_info[u].last_cum > SCALE \div 2
        /\ u \in claimed

\* An entry that was closed and exists again has last_cum at least what it was
\* at the close.
C13_ForwardAcrossClose ==
    \A u \in Users :
        user_info[u].exists => user_info[u].last_cum >= closed_last_cum[u]

\* A step keeps or raises the last_cum of an entry that exists before and after.
C13_ForwardStep ==
    \A u \in Users :
        (user_info[u].exists /\ user_info'[u].exists)
            => user_info'[u].last_cum >= user_info[u].last_cum

\* C13: the per-holder snapshot pointer only moves forward: over any sequence
\* of operations the last_cum of a holder's entry never decreases, also across
\* a close_user_info followed by the taxed swap that creates the entry again.
C13_LastCumForward ==
    []C13_ForwardAcrossClose /\ [][C13_ForwardStep]_vars

\* An entry closed with a positive pointer exists again.
C13_Witness ==
    \E u \in Users :
        /\ closed_last_cum[u] > 0
        /\ user_info[u].exists
        /\ user_info[u].last_cum >= closed_last_cum[u]
        /\ user_info[u].balance_snapshot > 0

\* C14: a ledger entry is destroyed only after settlement has run: whenever
\* close_user_info succeeds, the closed entry had no unsettled reward (its
\* last_cum equals the current cum_reward_per_token, or its owed amount
\* against the current cum_reward_per_token is 0).
C14_CloseOnlyWhenSettled ==
    initialized =>
        \A user \in Users, authority \in Users :
            LET c == close_user_info(Cur, user, authority)
                ui == user_info[user]
            IN  c.err = "Ok" =>
                    \/ ui.last_cum = global_state.cum_reward_per_token
                    \/ calculate_owed_rewards(ui.balance_snapshot,
                           global_state.cum_reward_per_token, ui.last_cum) = 0

\* C15: the proceeds used for the accrual are the measured difference:
\* actual_out is the reward vault's balance after the swap call minus its
\* balance right before the call (after the settle payout); a balance that is
\* lower after the call fails the operation with Overflow and leaves
\* cum_reward_per_token as it was; a call that returns success without
\* crediting the vault gives actual_out = 0.
C15_ProceedsAreMeasured ==
    initialized =>
        \A user \in Users, acct \in TokenAccounts, amount_in \in Amounts,
           min_amount_out \in MinOuts, o \in SwapOutcomes :
            LET c == SwapRun(user, acct, amount_in, min_amount_out, o)
                done == Range(c.steps)
                paid == IF "pay_owed" \in done THEN c.owed ELSE 0
                before == reward_vault - paid
                after == route_effect([Cur EXCEPT !.reward_vault = before], o.delta).reward_vault
            IN  ("swap_call" \in done /\ o.route = "ok") =>
                    /\ c.pre_balance = before
                    /\ IF after < before
                       THEN /\ c.err = "Overflow"
                            /\ "write_cum" \notin done
                            /\ Committed(Cur, c).global_state = global_state
                       ELSE /\ "measure" \in done
                            /\ c.delta_sol = after - before
                    /\ o.delta = 0 => ("measure" \in done /\ c.delta_sol = 0)
                    /\ c.err = "Ok" =>
                        /\ c.delta_cum = delta_cum_of(after - before, global_state.total_supply)
                        /\ c.st.global_state.cum_reward_per_token
                              = global_state.cum_reward_per_token + c.delta_cum

\* A state where, after the settle payout, the route takes a lamport out of
\* the vault (Overflow) or returns success having credited nothing
\* (actual_out = 0).
C15_Witness ==
    \E user \in Users, amount_in \in Amounts :
        LET lower == SwapRun(user, user, amount_in, 0, [route |-> "ok", delta |-> 0 - 1])
            zero == SwapRun(user, user, amount_in, 0, [route |-> "ok", delta |-> 0])
        IN  /\ lower.err = "Overflow"
            /\ "pay_owed" \in Range(lower.steps)
            /\ lower.st.reward_vault < lower.pre_balance
            /\ zero.err = "Ok"
            /\ zero.delta_sol = 0
            /\ "pay_owed" \in Range(zero.steps)

\* C17: vault sufficiency in taxed_swap_and_distribute: when the validation
\* and the slippage check pass and the reward vault's balance before the
\* invocation plus the swap proceeds is at least owed_amount, the operation
\* does not fail with InsufficientRewardVault and the holder is paid exactly
\* owed_amount; it fails with InsufficientRewardVault only when the vault
\* cannot cover owed_amount.
C17_VaultSufficiency ==
    initialized =>
        \A user \in Users, acct \in TokenAccounts, amount_in \in Amounts,
           min_amount_out \in MinOuts, o \in SwapOutcomes :
            LET c == SwapRun(user, acct, amount_in, min_amount_out, o)
            IN  /\ ("slippage_ok" \in Range(c.steps)
                        /\ reward_vault + c.delta_sol >= c.owed)
                      => /\ c.err # "InsufficientRewardVault"
                         /\ c.err = "Ok" => c.st.wallet[user] = c.owed
                /\ c.err = "InsufficientRewardVault"
                      => reward_vault + c.delta_sol < c.owed

\* C18: no partial settlement in claim_rewards: if owed_amount > 0 and the
\* reward vault holds less than owed_amount, claim_rewards fails with
\* InsufficientRewardVault, the holder receives nothing, and the entry's
\* last_cum and balance_snapshot are unchanged.
C18_ClaimVaultShort ==
    \A user \in Users, acct \in TokenAccounts :
        LET ui == user_info[user]
            owed == calculate_owed_rewards(ui.balance_snapshot,
                        global_state.cum_reward_per_token, ui.last_cum)
            c == claim_rewards(Cur, user, acct)
        IN  (ui.exists /\ owed > 0 /\ reward_vault < owed) =>
                /\ c.err = "InsufficientRewardVault"
                /\ Committed(Cur, c).reward_vault = reward_vault
                /\ Committed(Cur, c).user_info[user] = ui

\* C19: after every successful taxed_swap_and_distribute the caller's
\* balance_snapshot equals the holder's token balance as it is after the tax
\* transfer of this invocation.
C19_SnapshotIsPostTransfer ==
    initialized =>
        \A user \in Users, acct \in TokenAccounts, amount_in \in Amounts,
           min_amount_out \in MinOuts, o \in SwapOutcomes :
            LET c == SwapRun(user, acct, amount_in, min_amount_out, o)
            IN  c.err = "Ok" =>
                    c.st.user_info[user].balance_snapshot = acct_amount(c.st, acct)

\* delta_sol * SCALE / total_supply can be added to the accumulator within u128.
C16_Fits(delta_sol) ==
    /\ delta_sol <= U128_MAX \div SCALE
    /\ global_state.total_supply > 0
    /\ global_state.cum_reward_per_token
          <= U128_MAX - (delta_sol * SCALE) \div global_state.total_supply

\* The accrual c of delta_sol added the exact quotient, or failed with Overflow
\* having written nothing.
C16_Exact(c, delta_sol) ==
    IF C16_Fits(delta_sol)
    THEN /\ "write_cum" \in Range(c.steps)
         /\ c.delta_cum = (delta_sol * SCALE) \div global_state.total_supply
         /\ c.st.global_state.cum_reward_per_token
               = global_state.cum_reward_per_token + c.delta_cum
         /\ c.st.global_state.cum_reward_per_token <= U128_MAX
    ELSE /\ c.err = "Overflow"
         /\ "write_cum" \notin Range(c.steps)
         /\ c.st.global_state = global_state
         /\ Committed(Cur, c).global_state = global_state

\* C16: the accrual arithmetic is checked: a successful taxed swap adds exactly
\* floor(actual_out * SCALE / total_supply) to cum_reward_per_token; if
\* actual_out * SCALE or the addition would exceed the u128 range the operation
\* fails with Overflow and cum_reward_per_token keeps its value.  Stated for
\* the handler on every input, and for the accrual step on u128 values of
\* delta_sol up to the width.
C16_AccrualChecked ==
    /\ \A user \in Users, amount_in \in MathAmounts, min_amount_out \in MinOuts,
          o \in SwapOutcomes :
        LET c == SwapRun(user, user, amount_in, min_amount_out, o)
        IN  /\ "vault_ok" \in Range(c.steps) => C16_Exact(c, c.delta_sol)
            /\ c.err = "Ok" =>
                /\ "write_cum" \in Range(c.steps)
                /\ Committed(Cur, c).global_state.cum_reward_per_token
                      = global_state.cum_reward_per_token
                        + (c.delta_sol * SCALE) \div global_state.total_supply
    /\ \A d \in MathDeltas :
        C16_Exact(ts_account([NewCtx(Cur, "alice", "alice") EXCEPT !.delta_sol = d]), d)

\* An accumulator close to the width after a swap of the holder: one more swap
\* adds an inexact quotient and succeeds, another one in the same state
\* overflows the addition.
C16_Witness ==
    \E user \in Users, amount_in \in MathAmounts, o1 \in SwapOutcomes, o2 \in SwapOutcomes :
        LET c1 == SwapRun(user, user, amount_in, 0, o1)
            c2 == SwapRun(user, user, amount_in, 0, o2)
        IN  /\ user_info[user].exists
            /\ user_info[user].balance_snapshot > 0
            /\ c1.err = "Ok"
            /\ c1.delta_cum > 0
            /\ (c1.delta_sol * SCALE) % global_state.total_supply # 0
            /\ c2.err = "Overflow"
            /\ "vault_ok" \in Range(c2.steps)
            /\ c2.delta_sol > 0

\* C20: tax collection: a successful taxed_swap_and_distribute moves exactly
\* floor(amount_in * tax_rate_bps / 10000) token units from the holder's token
\* account to the token vault (the vault grows by it, the holder's balance
\* shrinks by it, their sum is unchanged); a failed invocation moves no tokens.
C20_TaxCollection ==
    \A user \in Users, acct \in TokenAccounts, amount_in \in MathAmounts,
       min_amount_out \in MinOuts, o \in SwapOutcomes :
        LET c == SwapRun(user, acct, amount_in, min_amount_out, o)
            s == Committed(Cur, c)
            tax == (amount_in * config.tax_rate_bps) \div BPS_DENOMINATOR
        IN  IF c.err = "Ok"
            THEN /\ acct_owner(acct) = user
                 /\ c.tax_amount = tax
                 /\ s.token_vault = token_vault + tax
                 /\ s.token_balance[user] = token_balance[user] - tax
                 /\ s.token_vault + s.token_balance[user] = token_vault + token_balance[user]
                 /\ \A u \in Users \ {user} : s.token_balance[u] = token_balance[u]
            ELSE /\ s.token_vault = token_vault
                 /\ s.token_balance = token_balance

\* A swap that moved a tax with an inexact quotient, a swap that moved none at
\* a nonzero rate, and a failed one after a tax was collected.
C20_Witness ==
    /\ token_vault > 0
    /\ config.tax_rate_bps \notin {0, BPS_DENOMINATOR}
    /\ \E user \in Users, a1 \in MathAmounts, a2 \in MathAmounts, a3 \in MathAmounts,
          o \in SwapOutcomes :
        LET c1 == SwapRun(user, user, a1, 0, o)
            c2 == SwapRun(user, user, a2, 0, o)
            c3 == SwapRun(user, user, a3, 1, o)
        IN  /\ c1.err = "Ok"
            /\ c1.tax_amount > 0
            /\ (a1 * config.tax_rate_bps) % BPS_DENOMINATOR # 0
            /\ c2.err = "Ok"
            /\ c2.tax_amount = 0
            /\ c3.err # "Ok"

\* C21: a successful claim_rewards changes only the caller's entry.last_cum,
\* the reward vault and the caller's lamports (both by the owed amount): it
\* leaves the caller's entry.balance_snapshot, GlobalState, Config, the token
\* vault and every other entry as they were.
C21_ClaimFrame ==
    \A user \in Users, acct \in TokenAccounts :
        LET c == claim_rewards(Cur, user, acct)
        IN  c.err = "Ok" =>
                /\ c.st.user_info[user].last_cum = global_state.cum_reward_per_token
                /\ c.st.reward_vault = reward_vault - c.owed
                /\ c.st.wallet[user] = c.owed
                /\ c.st.user_info[user].balance_snapshot = user_info[user].balance_snapshot
                /\ c.st.global_state = global_state
                /\ c.st.config = config
                /\ c.st.token_vault = token_vault
                /\ c.st.token_balance = token_balance
                /\ \A other \in Users \ {user} : c.st.user_info[other] = user_info[other]

\* C22: every call of swap_tokens_for_sol attempts the primary exchange route
\* first and, if the primary fails, attempts exactly one fallback route before
\* returning failure: a call that returns failure has attempted two routes.
C22_RouteOrdering ==
    \A user \in Users, acct \in TokenAccounts, amount_in \in Amounts,
       min_amount_out \in MinOuts, o \in SwapOutcomes :
        LET c == SwapRun(user, acct, amount_in, min_amount_out, o)
            attempts == swap_attempts(c.amount_in, c.route)
        IN  "swap_call" \in Range(c.steps) =>
                /\ Len(attempts) >= 1
                /\ swap_tokens_for_sol(c.amount_in, c.route) # "Ok" => Len(attempts) = 2

\* C23: when the swap adapter call fails inside taxed_swap_and_distribute the
\* operation fails with SwapFailed, and up to the failure the invocation has
\* written neither last_cum nor balance_snapshot, paid no reward and written
\* no GlobalState.
C23_SwapFailureBeforeLedger ==
    \A user \in Users, acct \in TokenAccounts, amount_in \in Amounts,
       min_amount_out \in MinOuts, o \in SwapOutcomes :
        LET c == SwapRun(user, acct, amount_in, min_amount_out, o)
        IN  /\ "swap_call" \in Range(c.steps)
            /\ swap_tokens_for_sol(c.amount_in, c.route) # "Ok"
            => /\ c.err = "SwapFailed"
               /\ Range(c.steps) \cap {"pay_owed", "write_last_cum", "write_snapshot",
                                       "write_cum"} = {}
               /\ c.st.user_info = user_info
               /\ c.st.reward_vault = reward_vault
               /\ c.st.global_state = global_state

\* floor(amount * rate / 10000) of the integers, computed without a product
\* wider than the amount.
C24_Floor(amount, rate) ==
    (amount \div BPS_DENOMINATOR) * rate
        + ((amount % BPS_DENOMINATOR) * rate) \div BPS_DENOMINATOR

\* C24: for every amount and every rate <= 10000 on which the tax computation
\* returns a value, the tax is floor(amount * rate / 10000), is at most the
\* amount, is 0 when the rate is 0, and is non-decreasing in the rate: a larger
\* rate gives at least the tax, and the doubled rate gives between the tax and
\* twice the tax plus one.
C24_TaxComputation ==
    fn_call.fn = "tax_amount" /\ fn_ret.done /\ fn_call.b <= BPS_DENOMINATOR
    /\ fn_ret.value # None =>
        LET amount == fn_call.a
            rate == fn_call.b
            tax == fn_ret.value
        IN  /\ tax = C24_Floor(amount, rate)
            /\ tax <= amount
            /\ rate = 0 => tax = 0
            /\ \A larger \in FnRates :
                   larger >= rate /\ tax_amount_of(amount, larger) # None
                   => tax_amount_of(amount, larger) >= tax
            /\ 2 * rate <= BPS_DENOMINATOR /\ tax_amount_of(amount, 2 * rate) # None
               => /\ tax_amount_of(amount, 2 * rate) >= tax
                  /\ tax_amount_of(amount, 2 * rate) <= 2 * tax + 1

\* The tax of an amount and a rate with an inexact quotient was computed, and
\* the doubled rate is one more than twice the tax.
C24_Witness ==
    /\ fn_call = [fn |-> "tax_amount", a |-> 7, b |-> 3333, c |-> 0]
    /\ fn_ret = [done |-> TRUE, value |-> 2]
    /\ tax_amount_of(7, 6666) = 4

\* C25: the tax at the rate 10000 equals the amount for every u64 amount, and
\* no amount with a rate <= 10000 fails with Overflow, the product being formed
\* in a wider intermediate.
C25_FullRateExact ==
    fn_call.fn = "tax_amount" /\ fn_ret.done /\ fn_call.b <= BPS_DENOMINATOR =>
        /\ fn_ret.value # None
        /\ fn_call.b = BPS_DENOMINATOR => fn_ret.value = fn_call.a

\* The arguments of a returned calculate_owed_rewards call, and whether the
\* product balance * (cum_now - cum_last) fits u128.
C26_Diff == fn_call.b - fn_call.c

C26_ProductFits ==
    fn_call.a = 0 \/ C26_Diff = 0 \/ fn_call.a <= U128_MAX \div C26_Diff

C26_OwedReturned ==
    fn_call.fn = "calculate_owed_rewards" /\ fn_ret.done /\ fn_call.b >= fn_call.c

\* C26 as stated: for cum_now >= cum_last, owed is 0 if and only if
\* cum_now = cum_last or the balance is 0.
C26_Original ==
    C26_OwedReturned /\ fn_ret.value # None =>
        (fn_ret.value = 0 <=> (fn_call.b = fn_call.c \/ fn_call.a = 0))

\* C26, amended: for cum_now >= cum_last where a value is returned, owed is 0
\* whenever cum_now = cum_last or the balance is 0, and owed is 0 exactly when
\* the product balance * (cum_now - cum_last) is below SCALE (the quotient
\* rounds down to 0) or the quotient is a multiple of 2^64 (the cast to u64
\* drops it).
C26_ZeroOwed ==
    C26_OwedReturned /\ fn_ret.value # None =>
        /\ C26_ProductFits
        /\ (fn_call.b = fn_call.c \/ fn_call.a = 0) => fn_ret.value = 0
        /\ fn_ret.value = 0 <=>
               \/ fn_call.a * C26_Diff < SCALE
               \/ ((fn_call.a * C26_Diff) \div SCALE) % (U64_MAX + 1) = 0

\* A holder with a balance and an accumulator that advanced by less than
\* SCALE per token is owed 0.
C26_Witness ==
    /\ fn_call = [fn |-> "calculate_owed_rewards", a |-> 1, b |-> SCALE \div 2, c |-> 0]
    /\ fn_ret = [done |-> TRUE, value |-> 0]

\* C27: the owed amount is never truncated silently: when the product exceeds
\* u128, or the quotient does not fit u64, calculate_owed_rewards fails with
\* Overflow, and a value it returns is the quotient itself.
C27_NoSilentTruncation ==
    C26_OwedReturned =>
        /\ ~C26_ProductFits => fn_ret.value = None
        /\ C26_ProductFits /\ (fn_call.a * C26_Diff) \div SCALE > U64_MAX
           => fn_ret.value = None
        /\ fn_ret.value # None => fn_ret.value = (fn_call.a * C26_Diff) \div SCALE

\* The quotient of a balance fits u64 exactly.
C28_InRange(balance) ==
    /\ balance = 0 \/ C26_Diff = 0 \/ balance <= U128_MAX \div C26_Diff
    /\ (balance * C26_Diff) \div SCALE <= U64_MAX

\* C28: calculate_owed_rewards returns exactly
\* floor(balance * (cum_now - cum_last) / SCALE) for results in range (balance 1
\* with difference SCALE / 2 gives 0, with difference SCALE gives 1), returns
\* the same value for the same arguments, is non-decreasing in the balance, and
\* fails with Overflow when cum_now < cum_last.
C28_OwedComputation ==
    fn_call.fn = "calculate_owed_rewards" /\ fn_ret.done =>
        /\ fn_call.b < fn_call.c => fn_ret.value = None
        /\ fn_ret.value = calculate_owed_rewards(fn_call.a, fn_call.b, fn_call.c)
        /\ fn_call.b >= fn_call.c /\ C28_InRange(fn_call.a) =>
               /\ fn_ret.value = (fn_call.a * C26_Diff) \div SCALE
               /\ \A larger \in FnBalances :
                      larger >= fn_call.a /\ C28_InRange(larger)
                      => calculate_owed_rewards(larger, fn_call.b, fn_call.c) >= fn_ret.value
        /\ calculate_owed_rewards(1, SCALE \div 2, 0) = 0
        /\ calculate_owed_rewards(1, SCALE, 0) = 1

\* A call with an inexact quotient returned its floor.
C28_Witness ==
    /\ fn_call = [fn |-> "calculate_owed_rewards", a |-> 3, b |-> SCALE + 1,
                  c |-> SCALE \div 2]
    /\ fn_ret = [done |-> TRUE, value |-> 1]

\* The outcome of every initialize invocation in the current state.
C29_Outcome ==
    \A authority \in Users, rate \in TaxRates, dex_program \in {"dex", "other_dex"} :
        LET c == initialize(Cur, authority, rate, dex_program)
        IN  /\ c.err = "Ok" =>
                /\ ~initialized
                /\ rate <= BPS_DENOMINATOR
                /\ mint_supply > 0
                /\ c.st.initialized
                /\ c.st.config = [tax_rate_bps |-> rate, owner |-> authority,
                                  dex_program |-> dex_program, paused |-> FALSE]
                /\ c.st.global_state = [total_supply |-> mint_supply,
                                        cum_reward_per_token |-> 0]
            /\ ~initialized /\ rate > BPS_DENOMINATOR => c.err = "InvalidTaxRate"
            /\ ~initialized /\ rate <= BPS_DENOMINATOR /\ mint_supply = 0
               => c.err = "InvalidMintSupply"
            /\ initialized => c.err # "Ok"
            /\ c.err # "Ok" => c.steps = <<>> /\ Committed(Cur, c) = Cur

\* The step that deploys the program, and no step undoes it.
C29_Step ==
    /\ initialized => initialized'
    /\ ~initialized /\ initialized' =>
           /\ mint_supply > 0
           /\ config'.tax_rate_bps <= BPS_DENOMINATOR
           /\ config'.owner \in Users
           /\ ~config'.paused
           /\ global_state' = [total_supply |-> mint_supply, cum_reward_per_token |-> 0]

C30_UpdateTotalSupply ==
    initialized =>
        \A signer \in Users :
            LET c == update_total_supply(Cur, signer)
            IN  /\ signer # config.owner => c.err # "Ok" /\ Committed(Cur, c) = Cur
                /\ signer = config.owner =>
                       /\ c.err = "Ok"
                       /\ c.st.global_state.total_supply = mint_supply
                       /\ c.st = [Cur EXCEPT !.global_state.total_supply = mint_supply]

\* The supply moved after rewards accrued and a holder's entry exists: the
\* owner's call changes total_supply, the other user's call fails.
C30_Witness ==
    /\ initialized
    /\ global_state.cum_reward_per_token > 0
    /\ global_state.total_supply # mint_supply
    /\ \E user \in Users : user_info[user].exists
    /\ \E signer \in Users :
           /\ update_total_supply(Cur, signer).err = "Ok"
           /\ update_total_supply(Cur, signer).st.global_state.total_supply
                  # global_state.total_supply
    /\ \E signer \in Users : update_total_supply(Cur, signer).err = "ConstraintHasOne"

RECURSIVE C32_SnapshotSum(_)
\* The sum of balance_snapshot over the existing entries of the users in set.
C32_SnapshotSum(set) ==
    IF set = {} THEN 0
    ELSE LET u == CHOOSE x \in set : TRUE
         IN  (IF user_info[u].exists THEN user_info[u].balance_snapshot ELSE 0)
                 + C32_SnapshotSum(set \ {u})

\* C32: in every reachable state the sum of balance_snapshot over all existing
\* ledger entries is at most GlobalState.total_supply, under any interleaving
\* of taxed swaps, claims and ordinary token transfers between holders.
C32_SnapshotSumBounded ==
    C32_SnapshotSum(Users) <= global_state.total_supply

\* C33: after a successful claim_rewards by a holder, the holder's
\* balance_snapshot equals the token balance of a token account that belongs to
\* the holder and to the configured mint: no token account the caller passes
\* makes the snapshot the balance of another holder's account or of an account
\* of a different mint.
C33_SnapshotOfOwnAccount ==
    \A user \in Users, acct \in TokenAccounts :
        LET c == claim_rewards(Cur, user, acct)
        IN  c.err = "Ok" =>
                \E own \in TokenAccounts :
                    /\ acct_owner(own) = user
                    /\ acct_mint(own) = Mint
                    /\ c.st.user_info[user].balance_snapshot = acct_amount(Cur, own)

\* The reward pending for a user's entry in the current state.
C34_Owed(user) ==
    calculate_owed_rewards(user_info[user].balance_snapshot,
                           global_state.cum_reward_per_token, user_info[user].last_cum)

C34_Paused ==
    initialized /\ config.paused =>
        /\ \A user \in Users, acct \in TokenAccounts :
               LET c == claim_rewards(Cur, user, acct)
                   u == claim_rewards([Cur EXCEPT !.config.paused = FALSE], user, acct)
               IN  /\ c.err = u.err
                   /\ c.steps = u.steps
                   /\ c.st = [u.st EXCEPT !.config.paused = TRUE]
                   /\ c.err # "ProgramPaused"
                   /\ user_info[user].exists /\ C34_Owed(user) # None
                      /\ C34_Owed(user) <= reward_vault
                      => /\ c.err = "Ok"
                         /\ c.st.wallet[user] = C34_Owed(user)
                         /\ c.st.reward_vault = reward_vault - C34_Owed(user)
        /\ \A user \in Users, acct \in TokenAccounts, amount_in \in Amounts,
              min_amount_out \in MinOuts, o \in SwapOutcomes :
               SwapRun(user, acct, amount_in, min_amount_out, o).err = "ProgramPaused"
        /\ \A rate \in TaxRates, paused \in BOOLEAN :
               update_config(Cur, config.owner, rate, paused).err = "Ok"
        /\ update_total_supply(Cur, config.owner).err = "Ok"
        /\ \A user \in Users :
               user_info[user].exists => close_user_info(Cur, user, user).err = "Ok"

C35_Outcome ==
    \A user \in Users, acct \in TokenAccounts :
        /\ \A amount_in \in Amounts, min_amount_out \in MinOuts, o \in SwapOutcomes :
               LET c == SwapRun(user, acct, amount_in, min_amount_out, o)
               IN  /\ ~user_info[user].exists =>
                          /\ c.owed = 0
                          /\ ~("pay_owed" \in Range(c.steps))
                          /\ c.st.wallet[user] = 0
                          /\ c.err = "Ok" => c.st.user_info[user].last_cum
                                                 = global_state.cum_reward_per_token
                   /\ user_info[user].exists /\ "write_last_cum" \in Range(c.steps) =>
                          /\ c.owed = C34_Owed(user)
                          /\ c.st.wallet[user] = c.owed
        /\ LET c == claim_rewards(Cur, user, acct)
           IN  /\ ~user_info[user].exists => c.err # "Ok" /\ c.st.wallet[user] = 0
               /\ c.err = "Ok" => c.st.wallet[user] = C34_Owed(user)

\* An entry that is created starts at the accumulator's value of that moment,
\* and the last_cum of an entry that exists does not move back.
C35_Step ==
    \A user \in Users :
        /\ ~user_info[user].exists /\ user_info'[user].exists =>
               user_info'[user].last_cum = global_state.cum_reward_per_token
        /\ user_info[user].exists /\ user_info'[user].exists =>
               user_info'[user].last_cum >= user_info[user].last_cum

\* C35: a ledger entry newly created by taxed_swap_and_distribute is paid 0 in
\* that invocation whatever cum_reward_per_token is, and in every later
\* settlement the holder is paid only for accruals made at or after the first
\* settlement of the current incarnation of the entry, never for accruals from
\* before the entry was created or re-created.
C35_NoBackPay == [](C35_Outcome) /\ [][C35_Step]_vars

\* alice closed her entry after rewards accrued and creates it again: the
\* swap pays 0 and the new entry starts at the accumulator's value.
C35_Witness ==
    /\ initialized
    /\ global_state.cum_reward_per_token > 0
    /\ ~user_info["alice"].exists
    /\ closed_last_cum["alice"] < global_state.cum_reward_per_token
    /\ \E amount_in \in Amounts, o \in SwapOutcomes :
           LET c == SwapRun("alice", "alice", amount_in, 0, o)
           IN  /\ c.err = "Ok"
               /\ c.owed = 0
               /\ c.st.user_info["alice"].last_cum = global_state.cum_reward_per_token
               /\ c.st.user_info["alice"].balance_snapshot > 0

\* The outcome of every operation a holder invokes in the current state leaves
\* every other holder's entry as it is.
C36_Outcome ==
    \A A \in Users : \A B \in Users \ {A} :
        /\ \A acct \in TokenAccounts, amount_in \in Amounts, min_amount_out \in MinOuts,
              o \in SwapOutcomes :
               SwapRun(A, acct, amount_in, min_amount_out, o).st.user_info[B] = user_info[B]
        /\ \A acct \in TokenAccounts :
               claim_rewards(Cur, A, acct).st.user_info[B] = user_info[B]
        /\ \A authority \in Users :
               close_user_info(Cur, A, authority).st.user_info[B] = user_info[B]

\* A step changes at most one holder's entry, and an entry is closed only by a
\* close_user_info invocation its holder signed.
C36_Step ==
    \A B \in Users :
        /\ user_info'[B] # user_info[B] =>
               \A A \in Users \ {B} : user_info'[A] = user_info[A]
        /\ user_info[B].exists /\ ~user_info'[B].exists =>
               \E authority \in Users :
                   LET c == close_user_info(Cur, B, authority)
                   IN  c.err = "Ok" /\ user_info' = c.st.user_info

\* C36: ledger isolation under interleaving: an operation invoked by holder A
\* (taxed swap, claim, close) never changes holder B's ledger entry, and only
\* A's own signature closes A's entry.
C36_LedgerIsolation == [](C36_Outcome) /\ [][C36_Step]_vars

\* Both holders have an entry and alice's claim changes hers only.
C36_Witness ==
    /\ user_info["alice"].exists
    /\ user_info["bob"].exists
    /\ user_info["bob"].last_cum < global_state.cum_reward_per_token
    /\ LET c == claim_rewards(Cur, "alice", "alice")
       IN  /\ c.err = "Ok"
           /\ c.st.user_info["alice"] # user_info["alice"]
           /\ c.st.user_info["bob"] = user_info["bob"]

\* The outcome of every operation in the current state of a deployed program:
\* update_config keeps owner and dex_program, the other operations keep Config.
C37_Outcome ==
    initialized =>
        \A user \in Users :
            /\ \A rate \in TaxRates, paused \in BOOLEAN :
                   LET c == update_config(Cur, user, rate, paused)
                   IN  /\ c.st.config.owner = config.owner
                       /\ c.st.config.dex_program = config.dex_program
                       /\ c.err = "Ok" =>
                              c.st = [Cur EXCEPT !.config.tax_rate_bps = rate,
                                                 !.config.paused = paused]
            /\ \A acct \in TokenAccounts :
                   /\ claim_rewards(Cur, user, acct).st.config = config
                   /\ \A amount_in \in Amounts, min_amount_out \in MinOuts,
                         o \in SwapOutcomes :
                          SwapRun(user, acct, amount_in, min_amount_out, o).st.config = config
            /\ \A authority \in Users :
                   close_user_info(Cur, user, authority).st.config = config
            /\ update_total_supply(Cur, user).st.config = config

\* A step of a deployed program keeps owner and dex_program, and a step that
\* changes Config is an update_config signed by the owner.
C37_Step ==
    initialized =>
        /\ config'.owner = config.owner
        /\ config'.dex_program = config.dex_program
        /\ config' # config =>
               \E rate \in TaxRates, paused \in BOOLEAN :
                   LET c == update_config(Cur, config.owner, rate, paused)
                   IN  c.err = "Ok" /\ config' = c.st.config

\* C37: Config.owner and Config.dex_program never change after initialize:
\* update_config writes only tax_rate_bps and paused, and the taxed swap, claim,
\* close and update_total_supply leave Config unchanged.
C37_OwnerAndDexFixed == [](C37_Outcome) /\ [][C37_Step]_vars

\* bob deployed the program and has since changed the rate and paused it:
\* owner and dex_program are as initialize wrote them.
C37_Witness ==
    /\ initialized
    /\ config = [tax_rate_bps |-> BPS_DENOMINATOR + 1, owner |-> "bob",
                 dex_program |-> "dex", paused |-> TRUE]
    /\ global_state.cum_reward_per_token > 0

\* The outcome of a Buy or a Sell invoked in the current state.
C31_Trade(instruction, amount, layout, accounts_len, dex_ok, transfer_ok) ==
    IF instruction = "Buy"
    THEN legacy_buy(legacy, amount, layout, accounts_len, dex_ok, transfer_ok)
    ELSE legacy_sell(legacy, amount, layout, accounts_len, dex_ok, transfer_ok)

\* The tax of an amount and the fee pool with it fit u64.
C31_Fits(amount) ==
    /\ amount * 5 <= U64_MAX
    /\ legacy.collected_tokens + (amount * 5) \div 100 <= U64_MAX

\* What C31 says of one invocation with outcome c.
C31_TaxApplied(c, amount) ==
    IF C31_Fits(amount)
    THEN /\ "save_fee_pool" \in Range(c.steps)
         /\ c.tax = (amount * 5) \div 100
         /\ c.net_amount = amount - c.tax
         /\ c.tax + c.net_amount = amount
         /\ c.tax <= amount
         /\ IF "swap_call" \in Range(c.steps)
            THEN c.swap_amount = legacy.collected_tokens + c.tax
            ELSE c.st.collected_tokens = legacy.collected_tokens + c.tax
    ELSE /\ c.err = "Overflow"
         /\ Committed(legacy, c).collected_tokens = legacy.collected_tokens

\* C31: legacy Buy and Sell: for every amount with amount * 5 within u64 the
\* tax is floor(amount * 5 / 100), the net amount is amount - tax, and
\* FeePool.collected_tokens grows by exactly the tax; if amount * 5 or the fee
\* pool addition overflows u64 the instruction fails with Overflow and the fee
\* pool is unchanged.  Each instruction does so on a fee pool account of some
\* layout.
C31_LegacyTax ==
    \A instruction \in {"Buy", "Sell"} :
        \E layout \in LegacyLayouts :
            \A amount \in LegacyAmounts, accounts_len \in LegacyAccountsLen,
               dex_ok \in BOOLEAN, transfer_ok \in BOOLEAN :
                C31_TaxApplied(C31_Trade(instruction, amount, layout, accounts_len,
                                         dex_ok, transfer_ok), amount)


\* What C38 says of one Buy or Sell with outcome c, the fee pool holding
\* `collected` tokens before it.
C38_SwapAtThreshold(c, collected, accounts_len, dex_ok) ==
    LET accumulated == collected + c.tax
        swapped == "swap_call" \in Range(c.steps)
        reset == "reset_fee_pool" \in Range(c.steps)
        res == legacy_swap_tokens_for_sol(accounts_len, dex_ok)
    IN  /\ c.err = "Ok" => c.st.collected_tokens < SWAP_THRESHOLD
        /\ c.err = "Ok" =>
               c.st.collected_tokens = IF accumulated >= SWAP_THRESHOLD THEN 0
                                       ELSE accumulated
        /\ "save_fee_pool" \in Range(c.steps) => (swapped <=> accumulated >= SWAP_THRESHOLD)
        /\ swapped => /\ Before(c.steps, "save_fee_pool", "swap_call")
                      /\ c.swap_amount = accumulated
        /\ reset => /\ Before(c.steps, "swap_call", "reset_fee_pool")
                    /\ res = "Ok"
                    /\ c.st.collected_tokens = 0
        /\ swapped /\ res # "Ok" => /\ ~reset
                                    /\ c.err = res
                                    /\ Committed(legacy, c) = legacy

C39_Claim(overflow_checks) ==
    LET c == legacy_claim_rewards(legacy, overflow_checks)
        pending_rewards == legacy.pending_rewards
    IN  /\ pending_rewards = 0 =>
               /\ c.err = "Ok"
               /\ c.steps = <<>>
               /\ c.st = legacy
        /\ pending_rewards > 0 /\ legacy.sol_balance < pending_rewards =>
               /\ c.err = "InsufficientFunds"
               /\ c.steps = <<>>
               /\ Committed(legacy, c) = legacy
        /\ pending_rewards > 0 /\ legacy.sol_balance >= pending_rewards =>
               /\ c.err = "Ok"
               /\ c.st = [legacy EXCEPT
                              !.holder_lamports = @ + pending_rewards,
                              !.reward_pool_lamports = @ - pending_rewards,
                              !.sol_balance = @ - pending_rewards,
                              !.pending_rewards = 0]
               /\ c.st.sol_balance >= 0
               /\ \A again \in BOOLEAN :
                      LET r == legacy_claim_rewards(c.st, again)
                      IN  /\ r.err = "Ok"
                          /\ r.steps = <<>>
                          /\ r.st = c.st

====
